---- MODULE Spec2Model ----
(***************************************************************************)
(* Model of the ai-service and of the user-service.  The ai-service:       *)
(*   - the rules composer (src/unnamed/part_000): unpack(text, context)    *)
(*     and its helpers, with the process-wide history LAST_OUTPUTS;        *)
(*   - the provider switch (src/ai-service/src/services/aiService.ts):     *)
(*     unpack(text), unpackHf, normalize and unpackRules;                  *)
(*   - callWithRetry (src/ai-service/src/clients/llmClient.ts);            *)
(*   - the handler of POST /api/ai/unpack with its body schema             *)
(*     (aiController.ts, aiSchema.ts).                                     *)
(* The user-service: the routes of /auth with validate and verifyToken,    *)
(* the handlers (authController.ts), the services (src/unnamed/part_003)   *)
(* and the table users behind userRepo.ts.                                 *)
(*                                                                         *)
(* Strings are TLA+ strings, handled character by character with Len,      *)
(* SubSeq and \o.  A JavaScript string index i (from 0) is index i + 1     *)
(* here.  The source's typographic characters are written with one ASCII   *)
(* character each, of the same class for every test the code makes (none   *)
(* is a letter, a digit or white space, each is one UTF-16 unit):          *)
(*     U+2019 (right quote)  as '      U+2014, U+2013 (dashes) as -        *)
(*     U+201C, U+201D (double quotes) as { and }     U+2026 (ellipsis) as ~*)
(* The texts of the requests are ASCII without { } ~.                      *)
(***************************************************************************)
EXTENDS Integers, Sequences, FiniteSets, TLC

(***************************************************************************)
(* Characters                                                              *)
(***************************************************************************)
Ch(s, i) == SubSeq(s, i, i)

\* The printable ASCII characters in code order, without the grave accent
\* (code 96): Ch(AsciiLo, i) has code 31 + i, Ch(AsciiHi, i) has code 96 + i.
AsciiLo == " !\"#$%&'()*+,-./0123456789:;<=>?@ABCDEFGHIJKLMNOPQRSTUVWXYZ[\\]^_"
AsciiHi == "abcdefghijklmnopqrstuvwxyz{|}~"

\* The character that stands for the ellipsis has the code of the ellipsis,
\* U+2026: the excerpt of a long text ends with it, and the excerpt is hashed.
CodeTable ==
  [c \in {Ch(AsciiLo, i) : i \in 1..Len(AsciiLo)} \cup {Ch(AsciiHi, i) : i \in 1..Len(AsciiHi)} |->
     IF c = "~" THEN 8230
     ELSE IF \E i \in 1..Len(AsciiLo) : Ch(AsciiLo, i) = c
     THEN 31 + (CHOOSE i \in 1..Len(AsciiLo) : Ch(AsciiLo, i) = c)
     ELSE 96 + (CHOOSE i \in 1..Len(AsciiHi) : Ch(AsciiHi, i) = c)]

\* String.prototype.charCodeAt for one character
charCodeAt(c) == CodeTable[c]

UpperChars == {Ch(AsciiLo, i) : i \in 34..59}
LowerChars == {Ch(AsciiHi, i) : i \in 1..26}
DigitChars == {Ch(AsciiLo, i) : i \in 17..26}

IsSpace(c)  == c = " "                                        \* \s
IsLetter(c) == c \in UpperChars \/ c \in LowerChars           \* [A-Za-z]
IsWordCh(c) == IsLetter(c) \/ c \in DigitChars \/ c = "_"     \* \w

LowerCh(c) == IF c \in UpperChars THEN Ch(AsciiHi, charCodeAt(c) - 64) ELSE c

Min(a, b) == IF a < b THEN a ELSE b
Max(a, b) == IF a < b THEN b ELSE a

(***************************************************************************)
(* String operations of the JavaScript library, as the code uses them.     *)
(* Scans read a string through chars(s), the sequence of its characters.   *)
(***************************************************************************)
chars(s) == [i \in 1..Len(s) |-> Ch(s, i)]

\* s.slice(0, n)
slice(s, n) == SubSeq(s, 1, Min(n, Len(s)))

\* s.toLowerCase(), as the sequence of its characters
toLowerCase(s) == [i \in 1..Len(s) |-> LowerCh(Ch(s, i))]

\* lc.includes(k), for the characters lc and the string k
includes(lc, k) ==
  LET kc == chars(k)
  IN  \E i \in 1..(Len(lc) - Len(kc) + 1) : \A j \in 1..Len(kc) : lc[i + j - 1] = kc[j]

\* The last index at or before i whose character is (sp = FALSE) not white
\* space, or (sp = TRUE) white space; 0 when there is none.
RECURSIVE LastAt(_, _, _)
LastAt(s, i, sp) ==
  IF i = 0 \/ IsSpace(Ch(s, i)) = sp THEN i ELSE LastAt(s, i - 1, sp)

\* The first index at or after i whose character is not white space;
\* Len(s) + 1 when there is none.
RECURSIVE FirstNonSpace(_, _)
FirstNonSpace(s, i) ==
  IF i > Len(s) \/ ~IsSpace(Ch(s, i)) THEN i ELSE FirstNonSpace(s, i + 1)

\* Array.prototype.join
RECURSIVE join(_, _)
join(arr, sep) ==
  IF arr = <<>> THEN ""
  ELSE IF Len(arr) = 1 THEN arr[1]
  ELSE join(SubSeq(arr, 1, Len(arr) - 1), sep) \o sep \o arr[Len(arr)]

\* s.replace(/\s+/g, " ").trim(): every run of white space becomes one
\* space, and the leading and the trailing space are dropped.  CollapseRange
\* is the result for the characters lo..hi of c, last being the index of
\* the last character of c that is not white space.  A string that is
\* already in this form is returned as it is.
RECURSIVE CollapseRange(_, _, _, _)
CollapseRange(c, lo, hi, last) ==
  IF lo > hi THEN ""
  ELSE IF lo = hi
    THEN IF ~IsSpace(c[lo]) THEN c[lo]
         ELSE IF lo > 1 /\ ~IsSpace(c[lo - 1]) /\ lo < last THEN " "
         ELSE ""
  ELSE LET mid == (lo + hi) \div 2
       IN  CollapseRange(c, lo, mid, last) \o CollapseRange(c, mid + 1, hi, last)

collapseTrim(s) ==
  LET c == chars(s)
  IN  IF \A i \in 1..Len(c) : IsSpace(c[i]) => (1 < i /\ i < Len(c) /\ ~IsSpace(c[i + 1]))
      THEN s
      ELSE CollapseRange(c, 1, Len(c), LastAt(s, Len(s), FALSE))

\* s.trim()
trim(s) == SubSeq(s, FirstNonSpace(s, 1), LastAt(s, Len(s), FALSE))

\* s.replace(/\s+\S*$/, ""): the leftmost match starts the last run of white
\* space; the run and everything after it are removed.  Without white space
\* the string is returned as it is.
stripTail(s) ==
  LET q == LastAt(s, Len(s), TRUE)
  IN  IF q = 0 THEN s ELSE SubSeq(s, 1, LastAt(s, q, FALSE))

(***************************************************************************)
(* Arrays are sequences: the JavaScript element arr[i] is arr[i + 1] here. *)
(* A read outside 0..length-1 gives undefined.                             *)
(***************************************************************************)
Defined(v) == [def |-> TRUE, val |-> v]
Undefined  == [def |-> FALSE, val |-> "undefined"]

\* arr[i]
at(arr, i) == IF 0 <= i /\ i < Len(arr) THEN Defined(arr[i + 1]) ELSE Undefined

\* the string an operand of + is converted to
toStr(v) == v.val

\* a % n of JavaScript: the sign of the result is the sign of a
JsRem(a, n) == IF a >= 0 THEN a % n ELSE 0 - ((0 - a) % n)

\* A uniq that keeps every element
uniq_keepAll(arr) == arr

\* uniq: Array.from(new Set(arr)), the first occurrences in order
RECURSIVE uniq(_)
uniq(arr) ==
  IF arr = <<>> THEN <<>>
  ELSE LET init == uniq(SubSeq(arr, 1, Len(arr) - 1))
           x    == arr[Len(arr)]
       IN  IF \E j \in 1..Len(init) : init[j] = x THEN init ELSE Append(init, x)

\* hasAny(hay, needles)
hasAny(hay, needles) ==
  \E n \in 1..Len(needles) : \E h \in 1..Len(hay) : hay[h] = needles[n]

\* rotated(arr, by)
rotated(arr, by) ==
  LET n == IF Len(arr) = 0 THEN 1 ELSE Len(arr)
      k == (JsRem(by, n) + n) % n
  IN  SubSeq(arr, k + 1, Len(arr)) \o SubSeq(arr, 1, k)

(***************************************************************************)
(* hash32: 32-bit FNV-1a.  A 32-bit value is kept as two 16-bit halves,    *)
(* [hi, lo] for hi * 65536 + lo, so that no intermediate result leaves the *)
(* range of the checker's integers.                                        *)
(***************************************************************************)
Half == 65536

RECURSIVE Xor(_, _)
Xor(a, b) ==
  IF a = 0 THEN b
  ELSE IF b = 0 THEN a
  ELSE 2 * Xor(a \div 2, b \div 2) + ((a + b) % 2)

\* Math.imul(h, 16777619) >>> 0, with 16777619 = 256 * 65536 + 403
FnvMul(h) ==
  LET low == h.lo * 403
  IN  [hi |-> (h.hi * 403 + h.lo * 256 + (low \div Half)) % Half,
       lo |-> low % Half]

FnvBasis == [hi |-> 33052, lo |-> 40389]     \* 2166136261

\* A step that multiplies before it combines the character (FNV-1)
FnvStep_multiplyFirst(h, c) ==
  LET m == FnvMul(h) IN [hi |-> m.hi, lo |-> Xor(m.lo, charCodeAt(c))]

\* One step of the loop: h ^= code; h = Math.imul(h, 16777619) >>> 0
FnvStep(h, c) == FnvMul([hi |-> h.hi, lo |-> Xor(h.lo, charCodeAt(c))])

\* The loop over the characters lo..hi, from the value h (split in halves
\* to keep the evaluation shallow; h.hi < 0 never holds, the test only has
\* h computed before the characters after it are read).
RECURSIVE HashRange(_, _, _, _)
HashRange(s, lo, hi, h) ==
  IF lo > hi \/ h.hi < 0 THEN h
  ELSE IF lo = hi THEN FnvStep(h, s[lo])
  ELSE LET mid == (lo + hi) \div 2
       IN  HashRange(s, mid + 1, hi, HashRange(s, lo, mid, h))

\* hash32(s), for the characters s of the string
hash32(s) == HashRange(s, 1, Len(s), FnvBasis)

\* (seed + salt) % n, for 0 <= salt and 0 < n <= 16
SeedMod(seed, salt, n) == ((seed.hi % n) * (Half % n) + seed.lo + salt) % n

\* seed + k, reduced to 32 bits as the conversion of >> reduces it
SeedAdd(seed, k) ==
  LET low == seed.lo + k
  IN  [hi |-> (seed.hi + (low \div Half)) % Half, lo |-> low % Half]

\* seed >> k (1 <= k <= 16): the seed is read as a signed 32-bit integer,
\* negative from 2^31 on, and shifted with its sign.
Pow2(k) == IF k = 1 THEN 2 ELSE IF k = 2 THEN 4 ELSE IF k = 3 THEN 8 ELSE Half

SeedShr(seed, k) ==
  LET top == IF seed.hi >= 32768 THEN seed.hi - Half ELSE seed.hi
  IN  top * (Half \div Pow2(k)) + (seed.lo \div Pow2(k))

(***************************************************************************)
(* Signal extraction                                                       *)
(***************************************************************************)
stressorLex ==
  << "exam", "exams", "test", "tests", "deadline", "deadlines", "assignment",
     "assignments", "project", "projects", "workload", "homework", "sleep",
     "insomnia", "fatigue", "family", "relationship", "friend", "team", "group",
     "money", "finance", "health", "presentation", "interview", "coding", "bug",
     "debug", "grade", "grades", "gpa", "thesis" >>

\* A normalizeStressor that maps every term to itself
normalizeStressor_identity(s) == s

normalizeStressor(s) ==
  CASE s \in {"exams", "exam", "tests", "test"}  -> "exams"
    [] s \in {"deadlines", "deadline"}           -> "deadlines"
    [] s \in {"assignments", "assignment"}       -> "assignments"
    [] s \in {"projects", "project"}             -> "projects"
    [] s \in {"team", "group"}                   -> "team"
    [] s \in {"bug", "debug", "coding"}          -> "coding"
    [] s \in {"grade", "grades", "gpa"}          -> "grades"
    [] OTHER                                     -> s

\* Array.prototype.map with normalizeStressor
mapNormalize(arr) == [i \in 1..Len(arr) |-> normalizeStressor(arr[i])]

\* stressorLex.filter(k => lc.includes(k))
lexHits(lc) == SelectSeq(stressorLex, LAMBDA k : includes(lc, k))

\* uniq(stressorLex.filter(k => lc.includes(k)).map(normalizeStressor))
detectStressors(lc) == uniq(mapNormalize(lexHits(lc)))

moodRules ==
  << [keys  |-> <<"overwhelm", "overwhelmed", "stressed", "stress", "panic",
                  "anxious", "worry", "worried", "pressure">>,
      label |-> "overwhelmed"],
     [keys  |-> <<"tired", "exhausted", "fatigue", "drained", "sleepy", "insomnia">>,
      label |-> "tired"],
     [keys  |-> <<"sad", "down", "low", "depressed", "hopeless">>,
      label |-> "low"],
     [keys  |-> <<"angry", "frustrated", "annoyed", "irritated">>,
      label |-> "frustrated"] >>

\* keys.some(k => lc.includes(k))
someIncluded(lc, keys) == \E i \in 1..Len(keys) : includes(lc, keys[i])

\* A detectMood that lets the last rule with a hit win
detectMood_lastRule(lc) ==
  LET hit == {r \in 1..Len(moodRules) : someIncluded(lc, moodRules[r].keys)}
  IN  IF hit = {} THEN "neutral"
      ELSE moodRules[CHOOSE r \in hit : \A q \in hit : r >= q].label

detectMood(lc) ==
  LET hit == {r \in 1..Len(moodRules) : someIncluded(lc, moodRules[r].keys)}
  IN  IF hit = {} THEN "neutral"
      ELSE moodRules[CHOOSE r \in hit : \A q \in hit : r <= q].label

crisisTerms ==
  << "suicide", "kill myself", "end my life", "self-harm", "self harm",
     "cut myself", "harm myself", "want to die", "no reason to live",
     "hopeless", "worthless" >>

\* A detectRisk that flags every term it finds
detectRisk_perTerm(lc) ==
  LET found == SelectSeq(crisisTerms, LAMBDA k : includes(lc, k))
  IN  [i \in 1..Len(found) |-> "self_harm_terms_detected"]

detectRisk(lc) ==
  LET found == SelectSeq(crisisTerms, LAMBDA k : includes(lc, k))
  IN  IF Len(found) > 0 THEN <<"self_harm_terms_detected">> ELSE <<>>

Ellipsis == "~"

buildSummary(raw, stressors, mood) ==
  LET base  == IF Len(raw) > 140 THEN stripTail(slice(raw, 140)) \o Ellipsis ELSE raw
      label == IF Len(stressors) > 0
               THEN "(" \o mood \o "; " \o join(SubSeq(stressors, 1, Min(3, Len(stressors))), ", ") \o ")"
               ELSE "(" \o mood \o ")"
  IN  IF base = "" THEN "User shared feelings and context."
      ELSE trim(base \o " " \o label)

(***************************************************************************)
(* Long-input compression                                                  *)
(***************************************************************************)
MinOf(S) == CHOOSE i \in S : \A j \in S : i <= j
MaxOf(S) == CHOOSE i \in S : \A j \in S : j <= i

\* The matches of /(?<=[.!?])\s+/ in s: each is a run of white space that
\* starts right after '.', '!' or '?'.  The set holds the index where each
\* match starts.
splitStarts(s) ==
  {i \in 2..Len(s) : IsSpace(Ch(s, i)) /\ Ch(s, i - 1) \in {".", "!", "?"}}

\* s.split(/(?<=[.!?])\s+/).slice(0, n): the pieces from index from on.
RECURSIVE splitFrom(_, _, _, _)
splitFrom(s, from, stops, n) ==
  IF n = 0 THEN <<>>
  ELSE LET next == {i \in stops : i >= from}
       IN  IF next = {} THEN <<SubSeq(s, from, Len(s))>>
           ELSE LET i == MinOf(next)
                IN  <<SubSeq(s, from, i - 1)>>
                      \o splitFrom(s, FirstNonSpace(s, i), stops, n - 1)

splitSentences(s, n) == splitFrom(s, 1, splitStarts(s), n)

\* The indexes where the words of s (its maximal runs without white space,
\* s.split(/\s+/).filter(Boolean)) start.
wordStarts(s) ==
  {i \in 1..Len(s) : ~IsSpace(Ch(s, i)) /\ (i = 1 \/ IsSpace(Ch(s, i - 1)))}

\* The last index of the run of letters that starts at i; i - 1 when the
\* character at i is no letter.
RECURSIVE letterRunEnd(_, _)
letterRunEnd(s, i) ==
  IF i > Len(s) \/ ~IsLetter(Ch(s, i)) THEN i - 1 ELSE letterRunEnd(s, i + 1)

\* The word that starts at i matches /^[A-Za-z]{4,}$/
nounish(s, i) ==
  LET e == letterRunEnd(s, i)
  IN  e - i + 1 >= 4 /\ (e = Len(s) \/ IsSpace(Ch(s, e + 1)))

\* scoreSentence gives Math.sqrt(words) + 0.2 * nounish.  The model keeps
\* the two counts and compares scores exactly (on 5 * score, by squaring).
\* The floating-point sum differs from the exact order only when two
\* sentences with different perfect-square word counts have equal scores
\* (16 words with 14 nounish and 25 words with 9 is the smallest case).
scoreSentence(s) ==
  LET ws == wordStarts(s)
  IN  [words |-> Cardinality(ws), nounish |-> Cardinality({i \in ws : nounish(s, i)})]

\* a.score > b.score
scoreGt(a, b) ==
  LET d == b.nounish - a.nounish
      X == 25 * a.words - 25 * b.words - d * d
  IN  IF d >= 0 THEN X > 0 /\ X * X > 100 * d * d * b.words
      ELSE (0 - X) - 2 * d * d < 0
           \/ 100 * d * d * a.words > ((0 - X) - 2 * d * d) * ((0 - X) - 2 * d * d)

\* .sort((a, b) => b.score - a.score).slice(0, 2): the sort is stable, so
\* the sentence at i precedes the one at j when its score is greater, or
\* equal with i < j.
sortsBefore(scores, i, j) ==
  scoreGt(scores[i], scores[j]) \/ (~scoreGt(scores[j], scores[i]) /\ i < j)

topTwo(sentences) ==
  LET scores == [i \in 1..Len(sentences) |-> scoreSentence(sentences[i])]
      rank(i) == Cardinality({j \in 1..Len(sentences) : j # i /\ sortsBefore(scores, j, i)})
  IN  [r \in 1..Min(2, Len(sentences)) |->
         sentences[CHOOSE i \in 1..Len(sentences) : rank(i) = r - 1]]

\* A compressLongInput without the cut at 250 characters
compressLongInput_uncut(src) ==
  LET scored == topTwo(splitSentences(slice(src, 800), 5))
  IN  join([i \in 1..Len(scored) |-> trim(scored[i])], " ")

compressLongInput(src) ==
  LET trimmed   == slice(src, 800)
      sentences == splitSentences(trimmed, 5)
      scored    == topTwo(sentences)
      out       == join([i \in 1..Len(scored) |-> trim(scored[i])], " ")
  IN  IF Len(out) > 250 THEN stripTail(slice(out, 250)) \o Ellipsis ELSE out

(***************************************************************************)
(* mirrorFragment                                                          *)
(***************************************************************************)
\* ([A-Za-z]{3,}\s+) at i: where the next item starts, 0 when it does not match
groupNext(s, i) ==
  LET e == letterRunEnd(s, i)
  IN  IF i <= Len(s) /\ e - i + 1 >= 3 /\ e < Len(s) /\ IsSpace(Ch(s, e + 1))
      THEN FirstNonSpace(s, e + 1) ELSE 0

\* [A-Za-z]{3,}\b at i: where it ends, 0 when it does not match
finalEnd(s, i) ==
  LET e == letterRunEnd(s, i)
  IN  IF i >= 1 /\ i <= Len(s) /\ e - i + 1 >= 3 /\ (e = Len(s) \/ ~IsWordCh(Ch(s, e + 1)))
      THEN e ELSE 0

\* g groups from i: where the next item starts, 0 when they do not match
RECURSIVE groupsNext(_, _, _)
groupsNext(s, i, g) ==
  IF g = 0 \/ i = 0 THEN i ELSE groupsNext(s, groupNext(s, i), g - 1)

\* /\b([A-Za-z]{3,}\s+){2,6}[A-Za-z]{3,}\b/ at i: the end of the match (the
\* most groups that a final word can follow), 0 when there is no match
matchEnd(s, i) ==
  IF ~IsLetter(Ch(s, i)) \/ (i > 1 /\ IsWordCh(Ch(s, i - 1))) THEN 0
  ELSE LET G == {g \in 2..6 : finalEnd(s, groupsNext(s, i, g)) # 0}
       IN  IF G = {} THEN 0 ELSE finalEnd(s, groupsNext(s, i, MaxOf(G)))

OpenQuote  == "{"
CloseQuote == "}"

\* The matched text holds letters and white space only, so removing
\* [.,;:!?()[\]'"`] from it changes nothing.
mirrorFragment(text) ==
  LET starts == {i \in 1..Len(text) : matchEnd(text, i) # 0}
      first  == MinOf(starts)
      m      == IF starts = {} THEN ""
                ELSE trim(SubSeq(text, first, matchEnd(text, first)))
      cleaned == m
  IN  IF m = "" THEN ""
      ELSE IF Len(cleaned) < 10 THEN ""
      ELSE "About " \o OpenQuote \o slice(cleaned, 60) \o CloseQuote \o Ellipsis \o " "

(***************************************************************************)
(* Phrase pools                                                            *)
(***************************************************************************)
baseSteps ==
  << "Break one task into a 10-minute starter step and do just that.",
     "Write a 3-item do-next list and highlight the first item only.",
     "Set a 15-minute timer, silence notifications, and begin.",
     "Do a 5-minute brain dump to clear your head, then choose one item.",
     "Stand up, drink water, and take 10 slow breaths to reset.",
     "Ask a classmate/teammate one specific question you've been stuck on.",
     "Plan a 20-minute review block tonight and a 20-minute block tomorrow.",
     "Move the toughest task to your peak-focus hour and calendar it." >>

sleepSteps ==
  << "Try a short wind-down: dim lights, no screens for 20 minutes, and breathe slowly.",
     "Prepare for sleep: list tomorrow's top 1-2 tasks so your mind can let go." >>

examSteps ==
  << "Do one timed practice (10-15 minutes) on a single weak topic.",
     "Create a tiny formula/ideas sheet and review it aloud once." >>

teamSteps ==
  << "Post a quick update in your group chat with your next concrete step.",
     "Ask for a 10-minute sync to align on priorities and responsibilities." >>

tryNext ==
  << "Try this next:",
     "A small next move:",
     "One doable step:",
     "Consider trying:",
     "To get unstuck:" >>

questions ==
  << "What's the smallest next step you can complete in the next 15 minutes?",
     "If you only did 10%, where would you start?",
     "Which single task would make tomorrow easier if you did it now?",
     "What would a good-enough first step look like?" >>

commonSets ==
  << << "Thanks for sharing this-what you're feeling is valid.",
        "I hear you, and it makes sense that you feel this way.",
        "You're not alone in feeling like this, and it's okay to slow down." >>,
     << "I appreciate you saying this-your feelings make sense.",
        "Given what you've described, it's understandable to feel this way.",
        "It's okay to feel this-let's make things smaller and kinder." >>,
     << "Thanks for opening up-your reaction is valid.",
        "It's reasonable to feel like this with everything going on.",
        "You're not alone; many people feel this under similar pressure." >> >>

tailored_overwhelmed ==
  << << "Feeling overloaded is understandable given everything on your plate.",
        "It's natural to feel swamped when deadlines pile up." >>,
     << "When the list keeps growing, it's normal to feel flooded.",
        "A busy week can make any task feel bigger than it is." >>,
     << "Overload can blur priorities; we'll simplify it.",
        "Pressure stacks quickly-let's take one step at a time." >> >>

tailored_tired ==
  << << "When energy is low, it's wise to keep steps small and gentle.",
        "Fatigue makes everything feel heavier-small resets can still help." >>,
     << "Low energy narrows focus; tiny steps count.",
        "Restful pauses can restore just enough momentum." >>,
     << "When you're drained, the next step should be very small.",
        "Let's respect your energy and take one light step." >> >>

tailored_low ==
  << << "Low mood can shrink motivation-being kind to yourself matters here.",
        "When things feel heavy, tiny forward steps still count." >>,
     << "Motivation dips are human; gentleness helps you restart.",
        "Heavy feelings don't erase your ability to take one step." >>,
     << "It's okay to move slowly; small progress still matters.",
        "We'll keep it simple and manageable." >> >>

tailored_frustrated ==
  << << "Frustration shows you care about the outcome-let's channel it into one next step.",
        "It's okay to pause and reset before moving again." >>,
     << "That edge of frustration can be turned into focused action.",
        "A short reset often brings clarity." >>,
     << "Frustration is a signal you want it to work-let's shape it into action.",
        "A brief pause can convert friction into momentum." >> >>

tailored(mood) ==
  CASE mood = "overwhelmed" -> tailored_overwhelmed
    [] mood = "tired"       -> tailored_tired
    [] mood = "low"         -> tailored_low
    [] mood = "frustrated"  -> tailored_frustrated
    [] OTHER                -> << <<>>, <<>>, <<>> >>

STYLE_PROFILES ==
  << [order |-> <<"opener", "body", "action", "ask", "crisis">>, openerSet |-> 0, askSet |-> 0],
     [order |-> <<"body", "opener", "action", "ask", "crisis">>, openerSet |-> 1, askSet |-> 1],
     [order |-> <<"opener", "action", "body", "ask", "crisis">>, openerSet |-> 2, askSet |-> 2],
     [order |-> <<"action", "opener", "body", "ask", "crisis">>, openerSet |-> 1, askSet |-> 3] >>

crisisLine ==
  "If you're thinking about harming yourself or feel unsafe, please reach out to someone you trust now or local support (e.g., SOS 1767 in Singapore). You deserve immediate support."

Nudge == "Could starting with just five minutes help you get moving?"

(***************************************************************************)
(* Content planning                                                        *)
(***************************************************************************)
\* pick(arr, salt) = arr[(seed + salt) % Math.max(1, arr.length)]
pick(seed, arr, salt) == at(arr, SeedMod(seed, salt, Max(1, Len(arr))))

\* A pickProfile that reads one element past the end of the profiles
pickProfile_pastEnd(seed, day) ==
  at(STYLE_PROFILES, SeedMod(seed, day, Len(STYLE_PROFILES) + 1))

\* pickProfile: profiles[(seed + day) % profiles.length]
pickProfile(seed, day) == at(STYLE_PROFILES, SeedMod(seed, day, Len(STYLE_PROFILES)))

\* STYLE_PROFILES.indexOf(profile), -1 when it is not an element
indexOfProfile(profile) ==
  IF \E i \in 1..Len(STYLE_PROFILES) : STYLE_PROFILES[i] = profile
  THEN (CHOOSE i \in 1..Len(STYLE_PROFILES) : STYLE_PROFILES[i] = profile) - 1
  ELSE 0 - 1

\* arr[idx] || fallback: undefined and the empty string are falsy
orElse(v, fallback) == IF v.def /\ v.val # "" THEN v.val ELSE fallback

chooseOpener(mood, seed, setIdx) ==
  LET commons == commonSets[(setIdx % Len(commonSets)) + 1]
      tails   == tailored(mood)[(setIdx % 3) + 1]
      arr     == commons \o tails
  IN  orElse(at(arr, JsRem(SeedShr(seed, 1), Max(1, Len(arr)))), commons[1])

bodyBits(stressors) ==
  LET has(t) == \E i \in 1..Len(stressors) : stressors[i] = t
      topic  == (IF has("exams") \/ has("deadlines") \/ has("assignments")
                 THEN << "Given the pressure from exams and deadlines, keep today's plan small and focused.",
                         "With exams and deadlines ahead, narrowing to one doable step can restore momentum." >>
                 ELSE <<>>)
             \o (IF has("sleep")
                 THEN << "Sleep struggles amplify stress; a short wind-down later can help your mind settle." >>
                 ELSE <<>>)
             \o (IF has("team") \/ has("projects")
                 THEN << "A quick alignment with teammates can reduce uncertainty and share the load." >>
                 ELSE <<>>)
  IN  IF Len(topic) > 0 THEN topic
      ELSE << "Let's reduce overwhelm by narrowing scope to one clear next move.",
              "Clarity grows when you shrink the target to a single small action." >>

\* bits[(seed >> 2) % bits.length]: undefined when the index is negative
chooseBody(stressors, mood, seed) ==
  LET bits == bodyBits(stressors)
  IN  at(bits, JsRem(SeedShr(seed, 2), Len(bits)))

formatList(items, conj) ==
  IF Len(items) = 1 THEN items[1]
  ELSE IF Len(items) = 2 THEN items[1] \o " " \o conj \o " " \o items[2]
  ELSE join(SubSeq(items, 1, Len(items) - 1), ", ") \o ", " \o conj \o " " \o items[Len(items)]

\* The suggestions: chosen, then uniq(chosen).slice(0, 3)
chooseSteps(stressors, seed) ==
     (IF hasAny(stressors, <<"sleep">>) THEN <<toStr(pick(seed, sleepSteps, 0))>> ELSE <<>>)
  \o (IF hasAny(stressors, <<"exam", "exams", "test", "tests">>)
      THEN <<toStr(pick(seed, examSteps, 0))>> ELSE <<>>)
  \o (IF hasAny(stressors, <<"team", "group", "project", "projects", "presentation">>)
      THEN <<toStr(pick(seed, teamSteps, 0))>> ELSE <<>>)
  \o <<toStr(pick(seed, baseSteps, 0))>>
  \o <<toStr(pick(seed, rotated(baseSteps, SeedShr(seed, 3)), 0))>>

buildSuggestions(stressors, seed) ==
  LET u == uniq(chooseSteps(stressors, seed))
  IN  SubSeq(u, 1, Min(3, Len(u)))

(***************************************************************************)
(* Response assembly                                                       *)
(***************************************************************************)
\* order.map(k => parts[k]).filter(Boolean).join(" ")
assemble(order, parts) ==
  join(SelectSeq([i \in 1..Len(order) |-> parts[order[i]]], LAMBDA x : x # ""), " ")

\* enforceLength without the cut at max
enforceLength_uncut(s, min, max) ==
  LET out0 == collapseTrim(s)
  IN  IF Len(out0) < min THEN out0 \o " " \o Nudge ELSE out0

enforceLength(s, min, max) ==
  LET out0 == collapseTrim(s)
      out1 == IF Len(out0) < min THEN out0 \o " " \o Nudge ELSE out0
  IN  IF Len(out1) > max THEN stripTail(slice(out1, max)) \o "." ELSE out1

lengthTargetsFor(raw) ==
  IF Len(raw) < 120 THEN <<90, 200>>
  ELSE IF Len(raw) < 300 THEN <<140, 320>>
  ELSE <<180, 420>>

(***************************************************************************)
(* Anti-repetition guard                                                   *)
(***************************************************************************)
LRU_SIZE == 10

IsAlnumLc(c) == c \in LowerChars \/ c \in DigitChars

\* The last index of the run of [a-z0-9] that starts at i in the characters c
RECURSIVE alnumRunEnd(_, _)
alnumRunEnd(c, i) ==
  IF i > Len(c) \/ ~IsAlnumLc(c[i]) THEN i - 1 ELSE alnumRunEnd(c, i + 1)

\* tokens(s): every character of the lower-cased text outside [a-z0-9]
\* separates, and the runs of more than two characters are kept, as a set
\* (each token as the sequence of its characters).
tokens(s) ==
  LET lc     == toLowerCase(s)
      starts == {i \in 1..Len(lc) : IsAlnumLc(lc[i]) /\ (i = 1 \/ ~IsAlnumLc(lc[i - 1]))}
  IN  {SubSeq(lc, i, alnumRunEnd(lc, i)) : i \in {j \in starts : alnumRunEnd(lc, j) - j + 1 > 2}}

\* jaccardSimilarity(a, b) >= 0.85, on the exact quotient inter / union
tooSimilar(a, b) ==
  LET inter == Cardinality(a \cap b)
      union == IF Cardinality(a \cup b) = 0 THEN 1 ELSE Cardinality(a \cup b)
  IN  inter * 100 >= 85 * union

\* A check against the most recent entry only
isTooSimilarToRecent_latestOnly(out, history) ==
  history # <<>> /\ tooSimilar(tokens(history[1]), tokens(out))

\* Some prev of LAST_OUTPUTS is that similar to out (equal entries of the
\* history are compared once).
isTooSimilarToRecent(out, history) ==
  LET t == tokens(out)
  IN  \E prev \in {history[i] : i \in 1..Len(history)} : tooSimilar(tokens(prev), t)

\* A rememberOutput that never evicts
rememberOutput_overwrite(history, out) ==
  <<out>> \o (IF history = <<>> THEN <<>> ELSE Tail(history))

rememberOutput_unbounded(history, out) == <<out>> \o history

\* rememberOutput: unshift, then pop when longer than LRU_SIZE
rememberOutput(history, out) ==
  LET pushed == <<out>> \o history
  IN  IF Len(pushed) > LRU_SIZE THEN SubSeq(pushed, 1, Len(pushed) - 1) ELSE pushed

(***************************************************************************)
(* Inputs.  A text is a core phrase between filler sentences, the same     *)
(* number before and after it: the fillers carry no keyword of any lexicon *)
(* and bring the text into each length tier (under 120, under 300, up to   *)
(* 500) and over the 500 characters from which compressLongInput shortens  *)
(* it.                                                                     *)
(***************************************************************************)
MaxPad    == 2
MaxDay    == 3
MaxRepeat == 2
MaxCalls  == 11

Cores ==
  { "",
    "I want to die",
    "I WANT TO DIE.",
    "I feel hopeless and worthless.",
    "My tests and the exam are close, the group project has a bug and I cannot sleep.",
    "So stressed and tired, deadlines everywhere!",
    "  I  am   so annoyed  ",
    "Honestly after another failed attempt at fixing things alone late at night the thought that there is no reason to live keeps coming back to me again and again.",
    "ok 42" }

\* One sentence of 131 characters, and two sentences of 72 and 34.
FillerLong ==
  "Every single morning starts with another long list and nothing on it ever seems to get any shorter whatever I try to finish first. "
FillerPair ==
  "Most evenings end the same way with notes open and nothing written yet. Then I give up and go to bed. "

Fillers == {FillerLong, FillerPair}

RECURSIVE repeat(_, _)
repeat(s, n) == IF n = 0 THEN "" ELSE s \o repeat(s, n - 1)

Texts ==
  { IF k = 0 THEN core ELSE repeat(f, k) \o core \o " " \o repeat(f, k) :
      core \in Cores, f \in Fillers, k \in 0..MaxPad }

\* The texts of the runs that mix requests.
HistTexts ==
  { "I want to die",
    "So stressed and tired, deadlines everywhere!" }

(***************************************************************************)
(* unpack(text): the rules composer.  analyse is what unpack computes from *)
(* the text alone (lines 34-93 and 119-129), plan adds what depends on the *)
(* day (the profile, the opener, the first assembly and its length         *)
(* envelope, lines 118-135), guard the anti-repetition test and the        *)
(* regeneration (lines 137-160), and compose is plan followed by guard.    *)
(* A read of a property of undefined throws a TypeError: the call then     *)
(* ends with status "threw".                                               *)
(***************************************************************************)
Threw == [status |-> "threw"]

analyse(text) ==
  LET raw0       == collapseTrim(text)
      raw        == IF Len(raw0) > 500 THEN compressLongInput(raw0) ELSE raw0
      lc         == toLowerCase(raw)
      stressors  == detectStressors(lc)
      mood       == detectMood(lc)
      risk_flags == detectRisk(lc)
      seed       == hash32(IF Len(lc) = 0 THEN chars("empty") ELSE lc)
      suggestions == buildSuggestions(stressors, seed)
      tryLabel   == toStr(pick(seed, tryNext, 0))
      bodyPick   == chooseBody(stressors, mood, seed)
  IN  [raw0        |-> raw0,
       raw         |-> raw,
       seed        |-> seed,
       signals     |-> [mood |-> mood, stressors |-> stressors, risk_flags |-> risk_flags],
       summary     |-> buildSummary(raw, stressors, mood),
       suggestions |-> suggestions,
       bodyPick    |-> bodyPick,
       body        |-> mirrorFragment(raw) \o toStr(bodyPick),
       action      |-> IF Len(suggestions) > 0
                       THEN tryLabel \o " " \o formatList(suggestions, "and") \o "."
                       ELSE "",
       ask         |-> toStr(pick(seed, questions, 1)),
       crisis      |-> IF Len(risk_flags) > 0 THEN crisisLine ELSE "",
       lens        |-> lengthTargetsFor(raw)]

\* What unpack computes from the analysis of the text and the day.
plan(a, today) ==
  LET profile == pickProfile(a.seed, today)
  IN  IF ~profile.def THEN Threw
      ELSE LET opener == chooseOpener(a.signals.mood, a.seed, profile.val.openerSet)
               parts  == [opener |-> opener, body |-> a.body, action |-> a.action,
                          ask |-> a.ask, crisis |-> a.crisis]
           IN  [status      |-> "planned",
                raw0        |-> a.raw0,
                raw         |-> a.raw,
                seed        |-> a.seed,
                signals     |-> a.signals,
                summary     |-> a.summary,
                suggestions |-> a.suggestions,
                profile     |-> profile.val,
                bodyPick    |-> a.bodyPick,
                parts       |-> parts,
                minLen      |-> a.lens[1],
                maxLen      |-> a.lens[2],
                first       |-> enforceLength(assemble(profile.val.order, parts),
                                              a.lens[1], a.lens[2])]

\* The regenerated guidance (lines 140-151)
\* A regeneration that chooses the opener with the seed of the first attempt
regenerate_sameSeed(p) ==
  LET altProfile == at(STYLE_PROFILES,
                       (indexOfProfile(p.profile) + 1) % Len(STYLE_PROFILES))
      ask2       == at(questions, SeedMod(p.seed, 11, Len(questions)))
      opener2    == chooseOpener(p.signals.mood, p.seed, altProfile.val.openerSet)
      parts2     == [p.parts EXCEPT !.opener = opener2, !.ask = ask2.val]
  IN  Defined(enforceLength(assemble(altProfile.val.order, parts2), p.minLen, p.maxLen))

regenerate(p) ==
  LET altProfile == at(STYLE_PROFILES,
                       (indexOfProfile(p.profile) + 1) % Len(STYLE_PROFILES))
      ask2       == at(questions, SeedMod(p.seed, 11, Len(questions)))
  IN  IF ~altProfile.def THEN Undefined
      ELSE LET opener2 == chooseOpener(p.signals.mood, SeedAdd(p.seed, 7),
                                       altProfile.val.openerSet)
               parts2  == [p.parts EXCEPT !.opener = opener2,
                                          !.ask = IF ask2.def THEN ask2.val ELSE ""]
           IN  Defined(enforceLength(assemble(altProfile.val.order, parts2),
                                     p.minLen, p.maxLen))

\* A guard that checks the regenerated guidance too and, when it is too
\* similar as well, regenerates once more from the next profile
guard_checkAgain(p, history) ==
  IF p.status = "threw" THEN Threw
  ELSE LET similar == isTooSimilarToRecent(p.first, history)
           second  == IF similar THEN regenerate(p) ELSE Defined(p.first)
           alt     == at(STYLE_PROFILES, (indexOfProfile(p.profile) + 1) % Len(STYLE_PROFILES))
           third   == IF similar /\ second.def /\ isTooSimilarToRecent(second.val, history)
                      THEN regenerate([p EXCEPT !.profile = alt.val])
                      ELSE second
       IN  IF ~third.def THEN Threw
           ELSE [status      |-> "returned",
                 guidance    |-> third.val,
                 summary     |-> p.summary,
                 signals     |-> p.signals,
                 suggestions |-> p.suggestions,
                 regenerated |-> similar,
                 plan        |-> p]

\* The anti-repetition guard on the plan p (lines 137-160): the first
\* attempt, or the regenerated guidance when the first attempt is too
\* similar to an entry of the history.
guard(p, history) ==
  IF p.status = "threw" THEN Threw
  ELSE LET similar == isTooSimilarToRecent(p.first, history)
           second  == IF similar THEN regenerate(p) ELSE Defined(p.first)
       IN  IF ~second.def THEN Threw
           ELSE [status      |-> "returned",
                 guidance    |-> second.val,
                 summary     |-> p.summary,
                 signals     |-> p.signals,
                 suggestions |-> p.suggestions,
                 regenerated |-> similar,
                 plan        |-> p]

\* A composer whose day index moves with the length of the history
compose_dayFromHistory(a, today, history) == guard(plan(a, today + Len(history)), history)

\* unpack from line 96 on, for the analysis a of the text
compose(a, today, history) == guard(plan(a, today), history)

unpack(text, today, history) == compose(analyse(text), today, history)

(***************************************************************************)
(* State                                                                   *)
(***************************************************************************)
VARIABLES
  LAST_OUTPUTS,   \* the module-level history, most recent first
  today,          \* Math.floor(Date.now() / 86400000), counted from a day whose
                  \* index is a multiple of 4: pickProfile reads (seed + day) % 4
  pool,           \* the texts that requests carry in this run, each with
                  \* analyse of it (a function of the text alone)
  last,           \* what the latest call of unpack did
  log,            \* what every call so far did, most recent first
  sw,             \* what the latest call of the provider switch did
  cw,             \* the call of callWithRetry: where it is and what it did
  reqs,           \* the HTTP requests of the run: where the handler of each
                  \* is, what it carries and its response
  users,          \* the table users of the user-service, by its primary key
  now,            \* the time of the user-service, in days
  jar             \* the cookie named token that the client holds

vars == <<LAST_OUTPUTS, today, pool, last, log, sw, cw, reqs, users, now, jar>>

\* The variables of the rules composer, and the variables of the rest
composerVars == <<LAST_OUTPUTS, today, pool, last, log>>
userVars     == <<users, now, jar>>
others       == <<sw, cw, reqs, users, now, jar>>

NoCall == [status |-> "none"]

NoCookie == [kind |-> "none"]

\* The user-service has served no request
UsersIdle == users = <<>> /\ now = 0 /\ jar = NoCookie

\* Nothing but the rules composer has run
OthersIdle == sw = NoCall /\ cw = NoCall /\ reqs = <<>> /\ UsersIdle

Init ==
  /\ LAST_OUTPUTS = <<>>
  /\ today = 0
  /\ pool = [t \in HistTexts |-> analyse(t)]
  /\ last = NoCall
  /\ log = <<>>
  /\ OthersIdle

InitInputs ==
  /\ LAST_OUTPUTS = <<>>
  /\ today = 0
  /\ \E t \in Texts : pool = [x \in {t} |-> analyse(t)]
  /\ last = NoCall
  /\ log = <<>>
  /\ OthersIdle

\* One call of unpack(text), from its first line to its return.  A call
\* that throws leaves the history as it is.
Call(text, limit) ==
  /\ Len(log) < limit
  /\ last' = compose(pool[text], today, LAST_OUTPUTS) @@ [text |-> text, day |-> today]
  /\ LAST_OUTPUTS' = IF last'.status = "returned"
                     THEN rememberOutput(LAST_OUTPUTS, last'.guidance)
                     ELSE LAST_OUTPUTS
  /\ log' = <<last'>> \o log
  /\ UNCHANGED <<today, pool>>
  /\ UNCHANGED others

Unpack == \E t \in DOMAIN pool : Call(t, MaxCalls)

UnpackAgain == \E t \in DOMAIN pool : Call(t, MaxRepeat)

\* Midnight (UTC) passes.
Tick ==
  /\ today < MaxDay
  /\ today' = today + 1
  /\ UNCHANGED <<LAST_OUTPUTS, pool, last, log>>
  /\ UNCHANGED others

Next == Unpack

NextInputs == UnpackAgain \/ Tick

Spec == Init /\ [][Next]_vars

SpecInputs == InitInputs /\ [][NextInputs]_vars

(***************************************************************************)
(* Inputs for the signal extraction: texts of up to MaxWords fragments,    *)
(* each with a keyword of one mood rule, a crisis term, a stressor or      *)
(* none, in every order.                                                   *)
(***************************************************************************)
MaxWords == 2

Fragments ==
  { "So STRESSED", "tired", "feeling sad", "Annoyed!", "I want to die",
    "hopeless", "calm", "exams" }

SignalTexts ==
  { join(words, " ") : words \in UNION {[1..n -> Fragments] : n \in 0..MaxWords} }

InitSignals ==
  /\ LAST_OUTPUTS = <<>>
  /\ today = 0
  /\ \E t \in SignalTexts : pool = [x \in {t} |-> analyse(t)]
  /\ last = NoCall
  /\ log = <<>>
  /\ OthersIdle

NextSignals == UnpackAgain

SpecSignals == InitSignals /\ [][NextSignals]_vars

(***************************************************************************)
(* The provider switch (src/ai-service/src/services/aiService.ts).         *)
(*                                                                         *)
(* JavaScript values, as JSON.parse builds them: a value is a record with  *)
(* its type in t.  An object keeps its members as <<key, value>> pairs in  *)
(* the order of the text.                                                  *)
(***************************************************************************)
JUndefined == [t |-> "undefined"]
JNull      == [t |-> "null"]
JBool(b)   == [t |-> "boolean", b |-> b]
JNum(n)    == [t |-> "number", n |-> n]
JStr(s)    == [t |-> "string", s |-> s]
JArr(xs)   == [t |-> "array", items |-> xs]
JObj(ms)   == [t |-> "object", members |-> ms]

\* obj?.key: undefined for null and undefined, and for a value without the
\* property; the last member of an object with that key otherwise.
RECURSIVE memberOf(_, _, _)
memberOf(ms, key, i) ==
  IF i = 0 THEN JUndefined
  ELSE IF ms[i][1] = key THEN ms[i][2]
  ELSE memberOf(ms, key, i - 1)

getProp(obj, key) ==
  IF obj.t = "object" THEN memberOf(obj.members, key, Len(obj.members)) ELSE JUndefined

\* The value the digits s[lo..hi] write
RECURSIVE digitsValue(_, _, _)
digitsValue(s, lo, hi) ==
  IF hi < lo THEN 0
  ELSE 10 * digitsValue(s, lo, hi - 1) + (charCodeAt(Ch(s, hi)) - 48)

\* The index after the run of digits that starts at i
RECURSIVE digitsEnd(_, _)
digitsEnd(s, i) ==
  IF i <= Len(s) /\ Ch(s, i) \in DigitChars THEN digitsEnd(s, i + 1) ELSE i

\* The index of the first c at or after i, 0 when there is none
RECURSIVE indexFrom(_, _, _)
indexFrom(s, c, i) ==
  IF i > Len(s) THEN 0 ELSE IF Ch(s, i) = c THEN i ELSE indexFrom(s, c, i + 1)

\* The index of the last c at or before i, 0 when there is none
RECURSIVE lastIndexFrom(_, _, _)
lastIndexFrom(s, c, i) ==
  IF i < 1 THEN 0 ELSE IF Ch(s, i) = c THEN i ELSE lastIndexFrom(s, c, i - 1)

startsAt(s, i, word) == i + Len(word) - 1 <= Len(s) /\ SubSeq(s, i, i + Len(word) - 1) = word

\* JSON.parse, for texts without escape sequence, fraction or exponent.
\* parseValue reads one value at index i: ok is FALSE for a SyntaxError,
\* and next is the index after the value.
SyntaxError == [ok |-> FALSE, v |-> JUndefined, next |-> 0]
Parsed(v, next) == [ok |-> TRUE, v |-> v, next |-> next]

RECURSIVE parseValue(_, _), parseItems(_, _, _), parseMembers(_, _, _)
parseValue(s, i) ==
  IF i > Len(s) THEN SyntaxError
  ELSE LET c == Ch(s, i)
       IN  IF c = "{" THEN
             LET j == FirstNonSpace(s, i + 1)
             IN  IF j <= Len(s) /\ Ch(s, j) = "}" THEN Parsed(JObj(<<>>), j + 1)
                 ELSE parseMembers(s, j, <<>>)
           ELSE IF c = "[" THEN
             LET j == FirstNonSpace(s, i + 1)
             IN  IF j <= Len(s) /\ Ch(s, j) = "]" THEN Parsed(JArr(<<>>), j + 1)
                 ELSE parseItems(s, j, <<>>)
           ELSE IF c = "\"" THEN
             LET q == indexFrom(s, "\"", i + 1)
             IN  IF q = 0 THEN SyntaxError
                 ELSE Parsed(JStr(SubSeq(s, i + 1, q - 1)), q + 1)
           ELSE IF c \in DigitChars THEN
             LET e == digitsEnd(s, i)
             IN  IF Ch(s, i) = "0" /\ e > i + 1 THEN SyntaxError
                 ELSE Parsed(JNum(digitsValue(s, i, e - 1)), e)
           ELSE IF c = "-" THEN
             LET e == digitsEnd(s, i + 1)
             IN  IF e = i + 1 \/ (Ch(s, i + 1) = "0" /\ e > i + 2) THEN SyntaxError
                 ELSE Parsed(JNum(0 - digitsValue(s, i + 1, e - 1)), e)
           ELSE IF startsAt(s, i, "null") THEN Parsed(JNull, i + 4)
           ELSE IF startsAt(s, i, "true") THEN Parsed(JBool(TRUE), i + 4)
           ELSE IF startsAt(s, i, "false") THEN Parsed(JBool(FALSE), i + 5)
           ELSE SyntaxError

\* The items of an array from index i, after the items xs
parseItems(s, i, xs) ==
  LET r == parseValue(s, i)
      j == FirstNonSpace(s, r.next)
  IN  IF ~r.ok \/ j > Len(s) THEN SyntaxError
      ELSE IF Ch(s, j) = "]" THEN Parsed(JArr(Append(xs, r.v)), j + 1)
      ELSE IF Ch(s, j) = "," THEN parseItems(s, FirstNonSpace(s, j + 1), Append(xs, r.v))
      ELSE SyntaxError

\* The members of an object from index i, after the members ms
parseMembers(s, i, ms) ==
  LET k == parseValue(s, i)
      c == FirstNonSpace(s, k.next)
  IN  IF ~k.ok \/ k.v.t # "string" \/ c > Len(s) \/ Ch(s, c) # ":" THEN SyntaxError
      ELSE LET r == parseValue(s, FirstNonSpace(s, c + 1))
               j == FirstNonSpace(s, r.next)
           IN  IF ~r.ok \/ j > Len(s) THEN SyntaxError
               ELSE IF Ch(s, j) = "}" THEN Parsed(JObj(Append(ms, <<k.v.s, r.v>>)), j + 1)
               ELSE IF Ch(s, j) = "," THEN parseMembers(s, FirstNonSpace(s, j + 1), Append(ms, <<k.v.s, r.v>>))
               ELSE SyntaxError

JSONparse(s) ==
  LET r == parseValue(s, FirstNonSpace(s, 1))
  IN  IF r.ok /\ FirstNonSpace(s, r.next) = Len(s) + 1 THEN r ELSE SyntaxError

\* String(v), as Array.prototype.map(String) applies it to a parsed value
RECURSIVE digitsOf(_)
digitsOf(n) ==
  IF n < 10 THEN Ch("0123456789", n + 1) ELSE digitsOf(n \div 10) \o Ch("0123456789", (n % 10) + 1)

RECURSIVE String(_), joinItems(_, _)
String(v) ==
  CASE v.t = "string"    -> v.s
    [] v.t = "number"    -> IF v.n < 0 THEN "-" \o digitsOf(0 - v.n) ELSE digitsOf(v.n)
    [] v.t = "boolean"   -> IF v.b THEN "true" ELSE "false"
    [] v.t = "null"      -> "null"
    [] v.t = "undefined" -> "undefined"
    [] v.t = "array"     -> joinItems(v.items, Len(v.items))
    [] v.t = "object"    -> "[object Object]"

\* Array.prototype.toString: the items joined by commas, null as nothing
joinItems(xs, n) ==
  IF n = 0 THEN ""
  ELSE LET x == xs[n]
           s == IF x.t \in {"null", "undefined"} THEN "" ELSE String(x)
       IN  IF n = 1 THEN s ELSE joinItems(xs, n - 1) \o "," \o s

\* Number(v): [fin |-> TRUE, n |-> the number] or NaN.  The strings of the
\* model write integers only.
NaN == [fin |-> FALSE, n |-> 0]
Finite(n) == [fin |-> TRUE, n |-> n]

NumberOfString(str) ==
  LET s    == trim(str)
      neg  == Len(s) > 0 /\ Ch(s, 1) = "-"
      from == IF Len(s) > 0 /\ Ch(s, 1) \in {"-", "+"} THEN 2 ELSE 1
  IN  IF Len(s) = 0 THEN Finite(0)
      ELSE IF from <= Len(s) /\ digitsEnd(s, from) = Len(s) + 1
      THEN Finite(IF neg THEN 0 - digitsValue(s, from, Len(s)) ELSE digitsValue(s, from, Len(s)))
      ELSE NaN

Number(v) ==
  CASE v.t = "number"    -> Finite(v.n)
    [] v.t = "string"    -> NumberOfString(v.s)
    [] v.t = "boolean"   -> Finite(IF v.b THEN 1 ELSE 0)
    [] v.t = "null"      -> Finite(0)
    [] v.t = "undefined" -> NaN
    [] v.t = "array"     -> NumberOfString(String(v))
    [] v.t = "object"    -> NaN

\* clampMood(x) and the clamp of asMood, for an integer
clampMood(x) == Max(1, Min(5, x))

\* pick(arr, n) of the provider switch: the first n distinct elements
RECURSIVE pickFirst(_, _)
pickFirst(arr, n) ==
  IF arr = <<>> THEN <<>>
  ELSE LET out == pickFirst(SubSeq(arr, 1, Len(arr) - 1), n)
           x   == arr[Len(arr)]
       IN  IF Len(out) >= n \/ (\E j \in 1..Len(out) : out[j] = x) THEN out
           ELSE Append(out, x)

(***************************************************************************)
(* analyze(text): the rules-based analyzer of the provider switch          *)
(***************************************************************************)
positive ==
  <<"happy", "good", "excited", "calm", "relaxed", "joy", "glad", "okay", "ok", "proud">>
negative ==
  <<"sad", "down", "nervous", "anxious", "stressed", "angry", "tired", "lonely",
    "overwhelmed", "depressed", "bad", "worried">>

\* The keys of stressorMap in the order Object.keys gives them, each with
\* its tag
stressorMap ==
  << <<"exam", "exams">>, <<"exams", "exams">>, <<"test", "exams">>, <<"tests", "exams">>,
     <<"study", "exams">>, <<"studying", "exams">>,
     <<"friend", "friends">>, <<"friends", "friends">>, <<"cca", "friends">>,
     <<"teammate", "friends">>,
     <<"sleep", "sleep">>, <<"tired", "sleep">>, <<"insomnia", "sleep">>, <<"nap", "sleep">>,
     <<"family", "family">>, <<"parent", "family">>, <<"parents", "family">>,
     <<"mum", "family">>, <<"mom", "family">>, <<"dad", "family">>,
     <<"teacher", "school">>, <<"school", "school">>, <<"hw", "school">>,
     <<"homework", "school">>, <<"assignment", "school">>, <<"project", "school">>,
     <<"bully", "bullying">>, <<"bullying", "bullying">> >>

riskPhrases ==
  <<"kill myself", "suicide", "self-harm", "self harm", "cut myself", "end my life",
    "want to die", "hurt myself">>

\* words.filter(w => t.includes(w)).length
hits(t, words) == Cardinality({i \in 1..Len(words) : includes(t, words[i])})

analyze(text) ==
  LET t          == toLowerCase(text)
      mood       == clampMood(3 + hits(t, positive) - hits(t, negative))
      found      == SelectSeq(stressorMap, LAMBDA kv : includes(t, kv[1]))
      stressors  == uniq([i \in 1..Len(found) |-> found[i][2]])
      risk_flags == IF \E i \in 1..Len(riskPhrases) : includes(t, riskPhrases[i])
                    THEN <<"self-harm">> ELSE <<>>
      summary    == IF risk_flags # <<>>
                    THEN "Text shows distress signals; consider gentle check-in."
                    ELSE IF mood >= 4 THEN "Generally positive mood."
                    ELSE IF mood <= 2 THEN "Low mood signs present."
                    ELSE "Neutral mood overall."
  IN  [mood |-> mood, stressors |-> stressors, risk_flags |-> risk_flags, summary |-> summary]

\* The question bank
QB ==
  [generalOpeners |-> <<"What was the hardest part about today?",
                        "When did you feel it most strongly?",
                        "What helped even a little bit?",
                        "If this feeling could talk, what would it say?">>,
   exams    |-> <<"What part of studying feels most stressful right now?",
                  "Would breaking tasks into tiny steps help? Which step could be first?",
                  "Who could you study with for a short session?">>,
   friends  |-> <<"How did time with your friends affect how you felt?",
                  "Is there someone you feel safe sharing this with?">>,
   sleep    |-> <<"What usually makes it easier to fall asleep for you?",
                  "Would a short wind-down routine help tonight?">>,
   family   |-> <<"Is there anything at home that made this tougher or easier?",
                  "What kind of support would feel helpful from family?">>,
   school   |-> <<"Which school task is taking the most energy right now?",
                  "Would a 20-minute focus block help to get started?">>,
   bullying |-> <<"Have you been feeling unsafe around anyone?",
                  "Who is a trusted adult you could talk to about this?">>,
   lowMood  |-> <<"What is one small thing that might make today 1% better?",
                  "When did you last feel a bit lighter? What was different then?">>,
   neutral  |-> <<"What would you like more of this week?",
                  "Is there a small action that could keep things steady?">>,
   positive |-> <<"What went well that you'd like to repeat?",
                  "Who or what gave you energy today?">>,
   safety   |-> <<"Thanks for sharing this. Do you feel safe right now?",
                  "Would you like help finding someone to talk to?">>]

\* The questions that the stressors s[1..n] add
RECURSIVE stressorQuestions(_, _)
stressorQuestions(s, n) ==
  IF n = 0 THEN <<>>
  ELSE stressorQuestions(s, n - 1) \o (IF s[n] \in DOMAIN QB THEN QB[s[n]] ELSE <<>>)

has(arr, x) == \E i \in 1..Len(arr) : arr[i] = x

buildQuestions(mood, stressors, risk_flags) ==
  LET q == (IF has(risk_flags, "self-harm") THEN QB.safety ELSE <<>>)
           \o stressorQuestions(stressors, Len(stressors))
           \o (IF mood <= 2 THEN QB.lowMood ELSE IF mood >= 4 THEN QB.positive ELSE QB.neutral)
           \o QB.generalOpeners
  IN  pickFirst(uniq(q), 5)

\* buildSuggestions(stressors) of the provider switch
buildSuggestionsFor(stressors) ==
  LET s == (IF has(stressors, "exams") THEN <<"Try short study blocks with 5-minute breaks">> ELSE <<>>)
           \o (IF has(stressors, "friends") THEN <<"Spend a few minutes with someone supportive">> ELSE <<>>)
           \o (IF has(stressors, "sleep") THEN <<"Try a simple wind-down (dim lights, no phone for 20 mins)">> ELSE <<>>)
           \o (IF has(stressors, "school") THEN <<"Break tasks into one tiny, concrete next step">> ELSE <<>>)
      t == IF s = <<>> THEN <<"Take a short walk and breathe slowly for 1 minute">> ELSE s
  IN  pickFirst(uniq(t), 3)

unpackRules(text) ==
  LET a == analyze(text)
  IN  [summary     |-> a.summary,
       signals     |-> [mood |-> a.mood, stressors |-> a.stressors, risk_flags |-> a.risk_flags],
       suggestions |-> buildSuggestionsFor(a.stressors),
       questions   |-> buildQuestions(a.mood, a.stressors, a.risk_flags)]

(***************************************************************************)
(* The HF integration: extractJson, normalize, unpackHf, and the switch    *)
(***************************************************************************)
\* extractJson(s): from the first { to the last }, or s itself
extractJson(s) ==
  LET start == indexFrom(s, "{", 1)
      end   == lastIndexFrom(s, "}", Len(s))
  IN  IF start # 0 /\ end # 0 /\ end > start THEN SubSeq(s, start, end) ELSE s

nonBlank(s) == Len(trim(s)) > 0

asStringArray(x) ==
  IF x.t = "array"
  THEN SelectSeq([i \in 1..Len(x.items) |-> String(x.items[i])], nonBlank)
  ELSE IF x.t = "string" THEN (IF nonBlank(x.s) THEN <<trim(x.s)>> ELSE <<>>)
  ELSE <<>>

asMood(x) ==
  LET n == Number(x)
  IN  IF n.fin THEN clampMood(n.n) ELSE 3

\* normalize(obj)
normalize(obj) ==
  LET s0          == getProp(obj, "summary")
      summary     == IF s0.t = "string" /\ nonBlank(s0.s) THEN trim(s0.s)
                     ELSE "Neutral mood overall."
      g           == getProp(obj, "signals")
      signals     == IF g.t \in {"undefined", "null"} THEN JObj(<<>>) ELSE g
      stressors   == asStringArray(getProp(signals, "stressors"))
      risk_flags  == asStringArray(getProp(signals, "risk_flags"))
      mood        == asMood(getProp(signals, "mood"))
      suggestions == slice(asStringArray(getProp(obj, "suggestions")), 3)
      asked       == slice(asStringArray(getProp(obj, "questions")), 5)
  IN  [summary     |-> summary,
       signals     |-> [mood |-> mood, stressors |-> stressors, risk_flags |-> risk_flags],
       suggestions |-> IF suggestions # <<>> THEN suggestions
                       ELSE <<"Take a short walk and breathe slowly for 1 minute">>,
       questions   |-> IF asked # <<>> THEN asked
                       ELSE <<"What was the hardest part about today?",
                              "When did you feel it most strongly?",
                              "What helped even a little bit?">>]

\* How a call ends: the promise resolves with a result by the return
\* statement named in by, or rejects.
Resolved(result, by) == [status |-> "resolved", result |-> result, by |-> by]
Rejected(by)         == [status |-> "rejected", result |-> <<>>, by |-> by]

\* What the awaited chatCompletionJSON does: it throws, or returns a string
Throws(e)  == [kind |-> "throws", error |-> e, content |-> JUndefined]
Returns(v) == [kind |-> "returns", error |-> "", content |-> v]

\* !process.env.HF_TOKEN: unset or empty
noToken(env) == ~env.HF_TOKEN.def \/ env.HF_TOKEN.val = ""

unpackHf(text, env, chat) ==
  IF noToken(env) THEN Resolved(unpackRules(text), "noToken")
  ELSE IF chat.kind = "throws" THEN Rejected(chat.error)
  ELSE IF chat.content.t # "string" THEN Rejected("TypeError")
  ELSE LET parsed == JSONparse(extractJson(chat.content.s))
       IN  IF parsed.ok THEN Resolved(normalize(parsed.v), "normalize")
           ELSE Resolved(unpackRules(text), "parseFailed")

UpperCh(c) == IF c \in LowerChars THEN Ch(AsciiLo, charCodeAt(c) - 63) ELSE c

RECURSIVE toUpperCase(_)
toUpperCase(s) == IF s = "" THEN "" ELSE toUpperCase(SubSeq(s, 1, Len(s) - 1)) \o UpperCh(Ch(s, Len(s)))

\* unpack(text) of the provider switch
unpackSwitch(text, env, chat) ==
  LET provider == toUpperCase(IF env.LLM_PROVIDER.def THEN env.LLM_PROVIDER.val ELSE "RULES")
  IN  IF provider = "HUGGINGFACE"
      THEN LET r == unpackHf(text, env, chat)
           IN  IF r.status = "rejected" THEN Resolved(unpackRules(text), "hfFailed") ELSE r
      ELSE Resolved(unpackRules(text), "rules")

(***************************************************************************)
(* Calls of the provider switch.  The environment variables and what the   *)
(* awaited chatCompletionJSON does are inputs of a call.                   *)
(***************************************************************************)
SwTexts ==
  { "",
    "ok",
    "I want to die",
    "So stressed and tired, exams and homework everywhere!",
    "Happy and calm today, proud of my friends and glad about the project.",
    "Mum and dad argue, a bully at school, and I cannot sleep before the test." }

\* A reply with every field of the shape that the prompt asks for
FullReply ==
  "{\"summary\": \"Feeling low about exams.\", \"signals\": {\"mood\": 2, \"stressors\": [\"exams\"], \"risk_flags\": []}, \"suggestions\": [\"Try short study blocks\"], \"questions\": [\"What part feels hardest?\", \"Who could help?\", \"What helped before?\"]}"

\* A reply with fields of other types, repeated and blank strings, and more
\* entries than the result may have
LooseReply ==
  "{\"summary\": \"  \", \"signals\": {\"mood\": \"9\", \"stressors\": \"exams\", \"risk_flags\": null}, \"suggestions\": [\"Rest\", \"Rest\", \" \", 7, \"Walk\"], \"questions\": [\"Why?\", \"Why?\", \"How?\", \"When?\", \"Who?\", \"What?\"]}"

Replies ==
  { FullReply,
    "Sure! Here is the JSON: " \o FullReply \o " Hope it helps.",
    LooseReply,
    "{}",
    "null",
    "42",
    "[]",
    "\"fine\"",
    "",
    "Sorry, I cannot help with that.",
    "{\"summary\": \"Feeling low",
    "{\"signals\": {\"mood\": -3, \"risk_flags\": [\"self-harm\"]}, \"questions\": \"Do you feel safe?\"}" }

ChatErrors ==
  { "timeout of 20000ms exceeded", "Request failed with status code 503",
    "Request failed with status code 401", "Empty response" }

ChatOutcomes ==
  {Throws(e) : e \in ChatErrors} \cup {Returns(JStr(c)) : c \in Replies}

Envs ==
  [LLM_PROVIDER : {Undefined, Defined("RULES"), Defined("huggingface"), Defined("HUGGINGFACE")},
   HF_TOKEN     : {Undefined, Defined(""), Defined("hf_token")}]

\* The rules composer has not run
ComposerIdle ==
  /\ LAST_OUTPUTS = <<>>
  /\ today = 0
  /\ pool = <<>>
  /\ last = NoCall
  /\ log = <<>>

\* A call of the provider switch is about to be made
InitSwitch ==
  /\ ComposerIdle
  /\ \E text \in SwTexts, env \in Envs, chat \in ChatOutcomes :
       sw = [status |-> "called", text |-> text, env |-> env, chat |-> chat]
  /\ cw = NoCall
  /\ reqs = <<>>
  /\ UsersIdle

\* The call unpack(text) of the provider switch, until its promise is
\* settled
SwitchUnpack ==
  /\ sw.status = "called"
  /\ sw' = unpackSwitch(sw.text, sw.env, sw.chat) @@ sw
  /\ UNCHANGED <<composerVars, cw, reqs, userVars>>

NextSwitch == SwitchUnpack

SpecSwitch == InitSwitch /\ [][NextSwitch]_vars

(***************************************************************************)
(* callWithRetry (src/ai-service/src/clients/llmClient.ts)                 *)
(***************************************************************************)
\* AI_RETRY_BASE_MS and HF_MODEL are not set
RETRY_BASE_MS == 400
HF_MODEL == "Qwen/Qwen2.5-7B-Instruct"

\* /k/i.test(msg), for a pattern k without special characters
testI(k, msg) == includes(toLowerCase(msg), k)

\* What the awaited api.post(url, body) does.  It resolves with a response
\* that carries data, or rejects with an error e: e.response.status is
\* status (0 when there is no response) and e.message is message.
PostResolves(data) == [kind |-> "resolves", data |-> data, status |-> 0, message |-> ""]
PostRejects(status, message) ==
  [kind |-> "rejects", data |-> JUndefined, status |-> status, message |-> message]

\* The error of axios for a response with a status outside 2xx
HttpError(status) == PostRejects(status, "Request failed with status code " \o digitsOf(status))

Generated(text) == JObj(<< <<"generated_text", text>> >>)

PostOutcomes ==
  { PostResolves(JArr(<<Generated(JStr("  You are doing fine. "))>>)),
    PostResolves(Generated(JStr("Take one small step."))),
    PostResolves(JArr(<<>>)),
    PostResolves(Generated(JStr(""))),
    PostResolves(Generated(JNum(42))),
    PostResolves(JNull) }
  \cup {HttpError(s) : s \in {400, 401, 403, 404, 429, 500, 503, 599}}
  \cup { PostRejects(0, "read ECONNRESET"),
         PostRejects(0, "socket hang up"),
         PostRejects(0, "unable to verify the first certificate"),
         PostRejects(0, "connect ECONNREFUSED 127.0.0.1:443"),
         PostRejects(0, "getaddrinfo ENOTFOUND api-inference.huggingface.co"),
         PostRejects(0, "timeout of 20000ms exceeded"),
         PostRejects(0, "TLS certificate not found"),
         PostRejects(0, "socket closed: Invalid credentials"),
         PostRejects(429, "Rate limit reached, model not found in cache"),
         PostRejects(503, "Service unavailable: invalid credentials") }

\* The classification of the catch block
isAuth(e)     == e.status = 401 \/ e.status = 403 \/ testI("invalid credentials", e.message)
isNotFound(e) == e.status = 404 \/ testI("not found", e.message)
isRate(e)     == e.status = 429 \/ testI("rate", e.message)
isServer(e)   == e.status # 0 /\ e.status >= 500 /\ e.status <= 599
isNet(e) ==
  \E k \in {"econnreset", "etimedout", "enetunreach", "eai_again", "socket", "tls",
            "certificate", "fetch", "blob"} : testI(k, e.message)
shouldRetry(e) == isRate(e) \/ isServer(e) \/ isNet(e)

hint(e) ==
  IF isRate(e) THEN "HF rate-limited."
  ELSE IF isServer(e) THEN "HF server error."
  ELSE IF isNet(e) THEN "Network/SSL transport error."
  ELSE "HF error (status " \o (IF e.status # 0 THEN digitsOf(e.status) ELSE "n/a") \o ")."

\* The generated text of a response: data[0]?.generated_text for an array,
\* data?.generated_text otherwise
generatedText(data) ==
  IF data.t = "array"
  THEN (IF Len(data.items) > 0 THEN getProp(data.items[1], "generated_text") ELSE JUndefined)
  ELSE getProp(data, "generated_text")

\* The error that the try block hands to the catch block, for what api.post
\* did: none when the text is returned
EmptyText == PostRejects(0, "Empty generated_text from HF response")
NoError   == PostRejects(0, "")

caught(o) ==
  IF o.kind = "rejects" THEN o
  ELSE LET text == generatedText(o.data)
       IN  IF text.t # "string" \/ text.s = "" THEN EmptyText ELSE NoError

\* Math.round(RETRY_BASE_MS * Math.pow(2, attempt) * (0.75 + Math.random() * 0.5)),
\* for Math.random() = quarters / 4
Quarters == {0, 2}
wait(attempt, quarters) == (RETRY_BASE_MS * 2^attempt * (6 + quarters)) \div 8

\* The model bound of the setting AI_MAX_RETRIES
MaxRetriesSet == 2

\* What callWithRetry has done so far: the events of the call.  The field ms
\* of the call is the time of the sleep that it is in.
Event(ev, attempt, e) == [ev |-> ev, attempt |-> attempt, e |-> e]

\* A call of callWithRetry starts, with MAX_RETRIES as the settings give it
InitRetry ==
  /\ ComposerIdle
  /\ sw = NoCall
  /\ reqs = <<>>
  /\ UsersIdle
  /\ \E m \in 0..MaxRetriesSet :
       cw = [pc |-> "loop", MAX_RETRIES |-> m, attempt |-> 0, lastErr |-> NoError,
             events |-> <<>>, ms |-> 0, out |-> ""]

\* The test of the while loop and, inside it, the call of api.post
CwPost ==
  /\ cw.pc = "loop"
  /\ cw' = IF cw.attempt <= cw.MAX_RETRIES
           THEN [cw EXCEPT !.pc = "posting",
                           !.events = Append(@, Event("post", cw.attempt, NoError))]
           ELSE [cw EXCEPT !.pc = "threw", !.out = cw.lastErr.message]
  /\ UNCHANGED <<composerVars, sw, reqs, userVars>>

notFoundMessage == "HF model not found/unavailable: \"" \o HF_MODEL \o "\"."

\* The catch block for the error e, in the call c: the call throws, or
\* calls sleep
catchBlock_retryFirst(c, e, quarters) ==
  LET seen == [c EXCEPT !.lastErr = e,
                        !.events = Append(@, Event("error", c.attempt, e))]
  IN  IF shouldRetry(e) /\ c.attempt # c.MAX_RETRIES
      THEN [seen EXCEPT !.pc = "sleeping",
                        !.ms = wait(c.attempt, quarters),
                        !.events = Append(@, Event("sleep", c.attempt, NoError))]
      ELSE IF isAuth(e)
      THEN [seen EXCEPT !.pc = "threw",
                        !.out = "HF auth failed (check HF_TOKEN or accept model license)."]
      ELSE IF isNotFound(e)
      THEN [seen EXCEPT !.pc = "threw", !.out = notFoundMessage]
      ELSE [seen EXCEPT !.pc = "threw", !.out = hint(e) \o " Underlying: " \o e.message]

catchBlock(c, e, quarters) ==
  LET seen == [c EXCEPT !.lastErr = e,
                        !.events = Append(@, Event("error", c.attempt, e))]
  IN  IF isAuth(e)
      THEN [seen EXCEPT !.pc = "threw",
                        !.out = "HF auth failed (check HF_TOKEN or accept model license)."]
      ELSE IF isNotFound(e)
      THEN [seen EXCEPT !.pc = "threw", !.out = notFoundMessage]
      ELSE IF ~shouldRetry(e) \/ c.attempt = c.MAX_RETRIES
      THEN [seen EXCEPT !.pc = "threw", !.out = hint(e) \o " Underlying: " \o e.message]
      ELSE [seen EXCEPT !.pc = "sleeping",
                        !.ms = wait(c.attempt, quarters),
                        !.events = Append(@, Event("sleep", c.attempt, NoError))]

\* The awaited api.post settles: the rest of the try block and, for an
\* error, the catch block, up to the return, the throw or the call of sleep
CwSettle ==
  /\ cw.pc = "posting"
  /\ \E o \in PostOutcomes, quarters \in Quarters :
       cw' = IF caught(o) = NoError
             THEN [cw EXCEPT !.pc = "returned", !.out = trim(generatedText(o.data).s)]
             ELSE catchBlock(cw, caught(o), quarters)
  /\ UNCHANGED <<composerVars, sw, reqs, userVars>>

\* The awaited sleep ends
CwWake ==
  /\ cw.pc = "sleeping"
  /\ cw' = [cw EXCEPT !.pc = "loop", !.attempt = @ + 1, !.ms = 0]
  /\ UNCHANGED <<composerVars, sw, reqs, userVars>>

NextRetry == CwPost \/ CwSettle \/ CwWake

SpecRetry == InitRetry /\ [][NextRetry]_vars

(***************************************************************************)
(* POST /api/ai/unpack: unpackHandler and UnpackSchema                     *)
(* (src/ai-service/src/controllers/aiController.ts, schemas/aiSchema.ts).  *)
(* The unpack that the handler calls with text and context is the rules    *)
(* composer.                                                               *)
(***************************************************************************)
\* The limits of z.string().min(1).max(4000)
TextMin == 1
TextMax == 4000

Modes == {"journal", "prompt"}

Issue(path, problem) == [path |-> path, problem |-> problem]

\* The issues of z.string().min(1).max(4000) for the value v at the path
stringIssues(v, path) ==
  IF v.t # "string" THEN <<Issue(path, "invalid_type")>>
  ELSE IF Len(v.s) < TextMin THEN <<Issue(path, "too_small")>>
  ELSE IF Len(v.s) > TextMax THEN <<Issue(path, "too_big")>>
  ELSE <<>>

\* A mode that may be any string
modeIssues_anyString(v, path) ==
  IF v.t \in {"undefined", "string"} THEN <<>> ELSE <<Issue(path, "invalid_value")>>

\* The issues of z.enum(["journal", "prompt"]).optional()
modeIssues(v, path) ==
  IF v.t = "undefined" THEN <<>>
  ELSE IF v.t = "string" /\ v.s \in Modes THEN <<>>
  ELSE <<Issue(path, "invalid_value")>>

\* The issues of z.object({ mode }).optional()
contextIssues(v, path) ==
  IF v.t = "undefined" THEN <<>>
  ELSE IF v.t # "object" THEN <<Issue(path, "invalid_type")>>
  ELSE modeIssues(getProp(v, "mode"), Append(path, "mode"))

\* UnpackSchema.safeParse(body)
UnpackSchema(body) ==
  LET issues == IF body.t # "object" THEN <<Issue(<<>>, "invalid_type")>>
                ELSE stringIssues(getProp(body, "text"), <<"text">>)
                       \o contextIssues(getProp(body, "context"), <<"context">>)
  IN  [success |-> issues = <<>>,
       issues  |-> issues,
       text    |-> IF issues = <<>> THEN getProp(body, "text").s ELSE ""]

\* A text of 4000 characters, and one of 4001
Text4000 ==
  repeat(FillerLong, 30) \o "I want to die, and nobody around me has noticed anything at all so far"
Text4001 == Text4000 \o "."

Body(text) == JObj(<< <<"text", text>> >>)
BodyIn(text, context) == JObj(<< <<"text", text>>, <<"context", context>> >>)
Mode(mode) == JObj(<< <<"mode", mode>> >>)

\* The texts of the bodies that pass the schema
HttpTexts == {"I want to die", "So stressed and tired, deadlines everywhere!", Text4000}

GoodBodies ==
  { Body(JStr("I want to die")),
    BodyIn(JStr("I want to die"), Mode(JStr("journal"))),
    BodyIn(JStr("So stressed and tired, deadlines everywhere!"), JObj(<<>>)),
    JObj(<< <<"text", JStr("So stressed and tired, deadlines everywhere!")>>,
            <<"context", Mode(JStr("prompt"))>>, <<"user", JNum(7)>> >>),
    Body(JStr(Text4000)) }

BadBodies ==
  { JUndefined,
    JObj(<<>>),
    JObj(<< <<"context", Mode(JStr("journal"))>> >>),
    Body(JNull),
    Body(JNum(42)),
    Body(JArr(<<JStr("I want to die")>>)),
    Body(JStr("")),
    Body(JStr(Text4001)),
    BodyIn(JStr("I want to die"), Mode(JStr("chat"))),
    BodyIn(JStr("I want to die"), Mode(JStr("Journal"))),
    BodyIn(JStr("I want to die"), Mode(JNull)),
    BodyIn(JStr(""), Mode(JStr("chat"))) }

Bodies == GoodBodies \cup BadBodies

\* The model bound: the requests of a run
MaxRequests == 2
Requests == 1..MaxRequests

Waiting == [pc |-> "waiting"]

InitHttp ==
  /\ LAST_OUTPUTS = <<>>
  /\ today = 0
  /\ pool = [t \in HttpTexts |-> analyse(t)]
  /\ last = NoCall
  /\ log = <<>>
  /\ sw = NoCall
  /\ cw = NoCall
  /\ reqs = [i \in Requests |-> Waiting]
  /\ UsersIdle

\* The request i arrives with a body: unpackHandler up to its first
\* suspension.  A body that fails the schema is answered at once; for the
\* others the handler calls unpack, which runs to its return (it awaits
\* nothing), and waits for the settled promise.
Handle(i) ==
  /\ reqs[i].pc = "waiting"
  /\ \E body \in Bodies :
       LET parsed == UnpackSchema(body)
       IN  IF ~parsed.success
           THEN /\ reqs' = [reqs EXCEPT ![i] =
                              [pc |-> "answered", body |-> body,
                               res |-> [status |-> 400, message |-> "Invalid body",
                                        issues |-> parsed.issues]]]
                /\ UNCHANGED composerVars
           ELSE /\ last' = compose(pool[parsed.text], today, LAST_OUTPUTS)
                             @@ [text |-> parsed.text, day |-> today, req |-> i]
                /\ LAST_OUTPUTS' = IF last'.status = "returned"
                                   THEN rememberOutput(LAST_OUTPUTS, last'.guidance)
                                   ELSE LAST_OUTPUTS
                /\ log' = <<last'>> \o log
                /\ reqs' = [reqs EXCEPT ![i] = [pc |-> "awaiting", body |-> body, call |-> last']]
                /\ UNCHANGED <<today, pool>>
  /\ UNCHANGED <<sw, cw, userVars>>

\* The handler of the request i resumes after await unpack(text, context):
\* status 200 with the result, or 500 when unpack threw
Respond(i) ==
  /\ reqs[i].pc = "awaiting"
  /\ reqs' = [reqs EXCEPT ![i] =
                [pc |-> "answered", body |-> reqs[i].body,
                 res |-> IF reqs[i].call.status = "returned"
                         THEN [status |-> 200, result |-> reqs[i].call.guidance]
                         ELSE [status |-> 500, message |-> "Internal error"]]]
  /\ UNCHANGED <<composerVars, sw, cw, userVars>>

NextHttp == \E i \in Requests : Handle(i) \/ Respond(i)

SpecHttp == InitHttp /\ [][NextHttp]_vars

(***************************************************************************)
(* The user-service (src/user-service/src, src/unnamed/part_003 to         *)
(* part_005).  The table users is a function from the primary key email to *)
(* the row; a query runs as one step of the database.  A value of the      *)
(* cookie token is a record: no cookie, a text that is no token, or a      *)
(* token with its payload, its expiry and the key that signed it.  A       *)
(* handler wrapped in asyncHandler that rejects is answered through        *)
(* next(err), with the statusCode of an AppError and 500 for other errors. *)
(***************************************************************************)
ROLES == <<"user", "admin">>

isRole(value) == \E k \in 1..Len(ROLES) : ROLES[k] = value

\* z.email(): one @ after a local part and before a domain with a dot
\* inside, and no white space
isEmail(s) ==
  LET c == chars(s)
  IN  /\ \A j \in 1..Len(c) : c[j] # " "
      /\ \E i \in 2..(Len(c) - 3) :
           /\ c[i] = "@"
           /\ \A j \in 1..Len(c) : c[j] = "@" => j = i
           /\ \E d \in (i + 2)..(Len(c) - 1) : c[d] = "."

RegisterSchema(body) ==
  /\ isEmail(body.email)
  /\ Len(body.password) >= 8
  /\ Len(body.name) >= 1
  /\ isRole(body.role)

LoginSchema(body) == isEmail(body.email) /\ Len(body.password) >= 1

ResetPasswordSchema(body) == Len(body.newPassword) >= 8

\* email.trim().toLowerCase()
normalizeEmail(email) == join(toLowerCase(trim(email)), "")

\* bcrypt.hash with the salt it draws; the column CHAR(64) pads the hash
\* with blanks, and hash.trim() removes them
hashPassword(plain, salt) == [plain |-> plain, salt |-> salt, padded |-> FALSE]

char64(hash) == [hash EXCEPT !.padded = TRUE]

trimHash(hash) == [hash EXCEPT !.padded = FALSE]

\* bcrypt.compare(plain, hash.trim())
comparePassword(plain, hash) ==
  LET h == trimHash(hash) IN ~h.padded /\ h.plain = plain

\* SELECT ... FROM users WHERE email = $1 LIMIT 1, then rows[0] ?? null
findUserByEmail(table, email) ==
  IF email \in DOMAIN table THEN [found |-> TRUE, row |-> table[email]]
  ELSE [found |-> FALSE]

\* INSERT INTO users ... that replaces the row of an email it finds
insertUser_replace(table, params) ==
  [rejected |-> FALSE,
   table    |-> [e \in DOMAIN table \cup {params.email} |->
                   IF e = params.email
                   THEN [params EXCEPT !.password_hash = char64(@)]
                   ELSE table[e]]]

\* INSERT INTO users ...: the query rejects when the primary key exists
insertUser(table, params) ==
  IF params.email \in DOMAIN table THEN [rejected |-> TRUE, table |-> table]
  ELSE [rejected |-> FALSE,
        table    |-> table @@ (params.email :>
                       [params EXCEPT !.password_hash = char64(@)])]

\* UPDATE users SET password_hash = $1 WHERE email = $2
updateUserPassword(table, email, password_hash) ==
  [e \in DOMAIN table |->
     IF e = email THEN [table[e] EXCEPT !.password_hash = char64(password_hash)]
     ELSE table[e]]

\* JWT_EXPIRATION, "2d" unless the environment sets it, in days
JWT_EXPIRATION == 2

\* jwt.sign(payload, env.JWT_SECRET, {expiresIn: env.JWT_EXPIRATION})
signJwt(payload, when) ==
  [kind |-> "jwt", email |-> payload.email, role |-> payload.role,
   exp |-> when + JWT_EXPIRATION, key |-> "JWT_SECRET"]

\* jwt.verify(token, env.JWT_SECRET) returns the payload (TRUE) or throws
jwtVerify(token, when) ==
  /\ token.kind = "jwt"
  /\ token.key = "JWT_SECRET"
  /\ when < token.exp

NoUser == [email |-> "", role |-> ""]

\* verifyToken(allowedRoles)(req, res, next) ignores the expiry
verifyToken_anyTime(allowedRoles, cookie, when) ==
  IF cookie.kind = "none"
  THEN [next |-> FALSE, status |-> 401, message |-> "No token provided.", user |-> NoUser]
  ELSE IF ~(cookie.kind = "jwt" /\ cookie.key = "JWT_SECRET")
  THEN [next |-> FALSE, status |-> 400, message |-> "Invalid token.", user |-> NoUser]
  ELSE IF allowedRoles = {} \/ cookie.role \in allowedRoles
  THEN [next |-> TRUE, status |-> 0, message |-> "",
        user |-> [email |-> cookie.email, role |-> cookie.role]]
  ELSE [next |-> FALSE, status |-> 403, message |-> "Forbidden: Insufficient role.",
        user |-> [email |-> cookie.email, role |-> cookie.role]]

\* verifyToken(allowedRoles)(req, res, next): it calls next with req.user
\* set, or sends a response
verifyToken(allowedRoles, cookie, when) ==
  IF cookie.kind = "none"
  THEN [next |-> FALSE, status |-> 401, message |-> "No token provided.", user |-> NoUser]
  ELSE IF ~jwtVerify(cookie, when)
  THEN [next |-> FALSE, status |-> 400, message |-> "Invalid token.", user |-> NoUser]
  ELSE IF allowedRoles = {} \/ cookie.role \in allowedRoles
  THEN [next |-> TRUE, status |-> 0, message |-> "",
        user |-> [email |-> cookie.email, role |-> cookie.role]]
  ELSE [next |-> FALSE, status |-> 403, message |-> "Forbidden: Insufficient role.",
        user |-> [email |-> cookie.email, role |-> cookie.role]]

\* What a response does to the cookie token
KeepCookie     == [op |-> "keep", value |-> NoCookie]
ClearCookie    == [op |-> "clear", value |-> NoCookie]
SetCookie(v)   == [op |-> "set", value |-> v]

\* res.cookie(name, undefined, options) sends String(undefined)
UndefinedText == [kind |-> "text", text |-> "undefined"]

Response(status, message, cookie, user) ==
  [status |-> status, message |-> message, cookie |-> cookie, user |-> user]

\* The service has not returned
NotReturned == [returned |-> FALSE, ok |-> FALSE, code |-> 0, message |-> ""]

SvcFailed(code, message) ==
  [returned |-> TRUE, ok |-> FALSE, code |-> code, message |-> message]

SvcOk == [returned |-> TRUE, ok |-> TRUE, code |-> 200, message |-> ""]

\* The handler of the request r has ended: what the service returned to
\* it, and its response
answered(r, svc, res) ==
  [pc |-> "answered", kind |-> r.kind, body |-> r.body, cookie |-> r.cookie,
   at |-> r.at, email |-> r.email, svc |-> svc, res |-> res]

\* The handler waits for a query (or for bcrypt) at pc
awaiting(r, pc, email, hash) ==
  [pc |-> pc, kind |-> r.kind, body |-> r.body, cookie |-> r.cookie,
   at |-> r.at, email |-> email, hash |-> hash]

NoHash == hashPassword("", 0)

invalidBody(r) ==
  answered(r, NotReturned, Response(400, "Invalid request body", KeepCookie, NoUser))

\* session(req, res) with req.user = user: the user of the request, or
\* the error thrown in the catch block
session(r, user) ==
  IF user.email = "" \/ user.role = ""
  THEN answered(r, NotReturned, Response(401, "Invalid token", KeepCookie, NoUser))
  ELSE answered(r, NotReturned, Response(200, "", KeepCookie, user))

\* A request enters its route: the middleware and the handler up to the
\* first query.  POST /register and POST /login validate the body, POST
\* /reset-password validates it and then verifies the token, GET /session
\* has no middleware, so that its handler runs without req.user.
entered(r) ==
  CASE r.kind = "register" ->
         IF ~RegisterSchema(r.body) THEN invalidBody(r)
         ELSE awaiting(r, "finding", normalizeEmail(r.body.email), NoHash)
    [] r.kind = "login" ->
         IF ~LoginSchema(r.body) THEN invalidBody(r)
         ELSE awaiting(r, "finding", normalizeEmail(r.body.email), NoHash)
    [] r.kind = "reset" ->
         IF ~ResetPasswordSchema(r.body) THEN invalidBody(r)
         ELSE LET v == verifyToken({}, r.cookie, r.at)
              IN  IF ~v.next
                  THEN answered(r, NotReturned,
                                Response(v.status, v.message, KeepCookie, NoUser))
                  ELSE IF v.user.email = ""
                  THEN answered(r, NotReturned,
                                Response(401, "Invalid token.", KeepCookie, NoUser))
                  ELSE awaiting(r, "finding", v.user.email, NoHash)
    [] r.kind = "session" -> session(r, NoUser)

(***************************************************************************)
(* The requests of a run.                                                  *)
(***************************************************************************)
RegisterBodies ==
  { [email |-> "a@x.io", password |-> "password1", name |-> "Ann", role |-> "user"],
    [email |-> "A@X.io", password |-> "password2", name |-> "Bob", role |-> "admin"],
    [email |-> "b@x.io", password |-> "password1", name |-> "Bea", role |-> "user"],
    [email |-> "a@x.io", password |-> "short", name |-> "Ann", role |-> "user"] }

LoginBodies ==
  { [email |-> "A@x.io", password |-> "password1"],
    [email |-> "a@x.io", password |-> "password2"],
    [email |-> "c@x.io", password |-> "password1"],
    [email |-> "nobody", password |-> "password1"] }

ResetBodies ==
  { [newPassword |-> "password1"], [newPassword |-> "password2"],
    [newPassword |-> "short"] }

\* A token that another key signed
Forged ==
  [kind |-> "jwt", email |-> "a@x.io", role |-> "admin", exp |-> 99, key |-> "other"]

Salts == {1, 2}

Kinds == {"register", "login", "reset", "session"}

\* The requests that a client holding the cookie c can send at the time
\* when: its own cookie goes with every request, and POST /reset-password and
\* GET /session are also sent without a cookie and with a forged one
Incoming(kinds, c, when) ==
  LET req(kind, body, cookie) ==
        [kind |-> kind, body |-> body, cookie |-> cookie, at |-> when, email |-> ""]
  IN  { r \in  {req("register", b, c) : b \in RegisterBodies}
          \cup {req("login", b, c) : b \in LoginBodies}
          \cup {req("reset", b, k) : b \in ResetBodies, k \in {c, NoCookie, Forged}}
          \cup {req("session", [none |-> ""], k) : k \in {c, NoCookie, Forged}} :
        r.kind \in kinds }

\* The request i arrives
Arrive(i, kinds) ==
  /\ reqs[i].pc = "waiting"
  /\ \E r \in Incoming(kinds, jar, now) : reqs' = [reqs EXCEPT ![i] = entered(r)]
  /\ UNCHANGED <<composerVars, sw, cw, userVars>>

\* registerUserSvc after await findUserByEmail, up to await insertUser; the
\* handler registerUser does not read what the service returns
RegisterFind(i) ==
  /\ reqs[i].pc = "finding" /\ reqs[i].kind = "register"
  /\ LET r == reqs[i]
         registered == Response(200, "User registered successfully.", KeepCookie, NoUser)
     IN  \E salt \in Salts :
           reqs' = [reqs EXCEPT ![i] =
             IF findUserByEmail(users, r.email).found
             THEN answered(r, SvcFailed(400, "Email already exists."), registered)
             ELSE IF ~isRole(r.body.role)
             THEN answered(r, SvcFailed(400, "That is not a valid role."), registered)
             ELSE awaiting(r, "inserting", r.email, hashPassword(r.body.password, salt))]
  /\ UNCHANGED <<composerVars, sw, cw, userVars>>

\* registerUserSvc after await insertUser, and the rest of registerUser; a
\* query that rejects makes the service and the handler reject
RegisterInsert(i) ==
  /\ reqs[i].pc = "inserting"
  /\ LET r   == reqs[i]
         ins == insertUser(users, [email |-> r.email, password_hash |-> r.hash,
                                   name |-> r.body.name, role |-> r.body.role])
     IN  /\ users' = ins.table
         /\ reqs' = [reqs EXCEPT ![i] =
              IF ins.rejected
              THEN answered(r, NotReturned,
                            Response(500, "Internal Server Error", KeepCookie, NoUser))
              ELSE answered(r, SvcOk,
                            Response(200, "User registered successfully.", KeepCookie, NoUser))]
  /\ UNCHANGED <<composerVars, sw, cw, now, jar>>

\* loginUserSvc after await findUserByEmail, and the rest of loginUser: it
\* sets the cookie to out.token and sends out.user, whatever out is
LoginFind(i) ==
  /\ reqs[i].pc = "finding" /\ reqs[i].kind = "login"
  /\ LET r     == reqs[i]
         user  == findUserByEmail(users, r.email)
         wrong == answered(r, SvcFailed(401, "Invalid email or password."),
                           Response(200, "Login successful", SetCookie(UndefinedText), NoUser))
     IN  reqs' = [reqs EXCEPT ![i] =
           IF ~user.found THEN wrong
           ELSE IF ~comparePassword(r.body.password, trimHash(user.row.password_hash))
           THEN wrong
           ELSE LET payload == [email |-> user.row.email, role |-> user.row.role]
                IN  answered(r, SvcOk,
                             Response(200, "Login successful",
                                      SetCookie(signJwt(payload, now)), payload))]
  /\ UNCHANGED <<composerVars, sw, cw, userVars>>

\* resetPasswordSvc after await findUserByEmail, up to await
\* updateUserPassword; resetPassword clears the cookie and answers 200
\* whatever the service returns
ResetFind(i) ==
  /\ reqs[i].pc = "finding" /\ reqs[i].kind = "reset"
  /\ LET r     == reqs[i]
         user  == findUserByEmail(users, r.email)
         reset == Response(200, "Password reset successfully.", ClearCookie, NoUser)
     IN  \E salt \in Salts :
           reqs' = [reqs EXCEPT ![i] =
             IF ~user.found
             THEN answered(r, SvcFailed(400, "User not found."), reset)
             ELSE IF comparePassword(r.body.newPassword, user.row.password_hash)
             THEN answered(r, SvcFailed(401, "Choose a different password."), reset)
             ELSE awaiting(r, "updating", r.email, hashPassword(r.body.newPassword, salt))]
  /\ UNCHANGED <<composerVars, sw, cw, userVars>>

\* resetPasswordSvc after await updateUserPassword, and the rest of
\* resetPassword
ResetUpdate(i) ==
  /\ reqs[i].pc = "updating"
  /\ users' = updateUserPassword(users, reqs[i].email, reqs[i].hash)
  /\ reqs' = [reqs EXCEPT ![i] =
       answered(reqs[i], SvcOk,
                Response(200, "Password reset successfully.", ClearCookie, NoUser))]
  /\ UNCHANGED <<composerVars, sw, cw, now, jar>>

\* The client receives the response of the request i and keeps, replaces
\* or drops its cookie
Receive(i) ==
  /\ reqs[i].pc = "answered"
  /\ jar' = CASE reqs[i].res.cookie.op = "set"   -> reqs[i].res.cookie.value
              [] reqs[i].res.cookie.op = "clear" -> NoCookie
              [] OTHER                           -> jar
  /\ reqs' = [reqs EXCEPT ![i] = Waiting]
  /\ UNCHANGED <<composerVars, sw, cw, users, now>>

MaxNow == 3

\* A day passes
Advance ==
  /\ now < MaxNow
  /\ now' = now + 1
  /\ UNCHANGED <<composerVars, sw, cw, reqs, users, jar>>

\* One client, which sends a request after it has received the response to
\* the one before
InitUsers ==
  /\ ComposerIdle
  /\ sw = NoCall
  /\ cw = NoCall
  /\ reqs = [i \in {1} |-> Waiting]
  /\ UsersIdle

NextUsers ==
  \/ Arrive(1, Kinds)
  \/ RegisterFind(1)
  \/ RegisterInsert(1)
  \/ LoginFind(1)
  \/ ResetFind(1)
  \/ ResetUpdate(1)
  \/ Receive(1)
  \/ Advance

SpecUsers == InitUsers /\ [][NextUsers]_vars

\* Registrations in flight together
InitRegister ==
  /\ ComposerIdle
  /\ sw = NoCall
  /\ cw = NoCall
  /\ reqs = [i \in Requests |-> Waiting]
  /\ UsersIdle

NextRegister ==
  \E i \in Requests : Arrive(i, {"register"}) \/ RegisterFind(i) \/ RegisterInsert(i)

SpecRegister == InitRegister /\ [][NextRegister]_vars

(***************************************************************************)
(* Properties                                                              *)
(***************************************************************************)
Returned == last.status = "returned"

\* s.includes(k) for two strings
contains(s, k) == includes(chars(s), k)

\* The text holds one of the crisis terms, in any case
mentionsCrisis(text) == someIncluded(toLowerCase(text), crisisTerms)

\* C1: whenever the call reports a risk flag, the guidance it returns holds
\* the whole crisis line, on the first-attempt and on the regenerated path.
C1_CrisisLineVerbatim ==
  (Returned /\ last.signals.risk_flags # <<>>) => contains(last.guidance, crisisLine)

\* C2: an accepted text (1 to 4000 characters) that holds a crisis term, in
\* any case and anywhere, gives a risk flag.
C2_CrisisTermFlagged ==
  (Returned /\ Len(last.text) >= 1 /\ Len(last.text) <= 4000 /\ mentionsCrisis(last.text))
    => last.signals.risk_flags # <<>>

\* C3: the returned guidance, first-attempt or regenerated, is at least as
\* long as the minimum of the tier of the text that reached extraction
\* ([90,200] under 120 characters, [140,320] under 300, else [180,420]) and
\* at most one character longer than its maximum.
C3_LengthInTier ==
  Returned =>
    LET n == Len(last.plan.raw)
        g == Len(last.guidance)
    IN  /\ n < 120             => (90 <= g /\ g <= 200 + 1)
        /\ (120 <= n /\ n < 300) => (140 <= g /\ g <= 320 + 1)
        /\ n >= 300            => (180 <= g /\ g <= 420 + 1)

\* A regenerated guidance of the upper tier that the cut brought under 420
C3_Witness ==
  /\ Returned
  /\ last.regenerated
  /\ Len(last.plan.raw) >= 300
  /\ Len(last.guidance) > 380
  /\ Len(last.guidance) <= 420

\* C4: two calls in immediate succession with the same text on the same day
\* never return guidance strings whose token sets have a Jaccard similarity
\* of 0.85 or more.
C4_SuccessiveCallsDiffer ==
  (/\ Len(log) >= 2
   /\ log[1].status = "returned" /\ log[2].status = "returned"
   /\ log[1].text = log[2].text
   /\ log[1].day = log[2].day)
    => ~tooSimilar(tokens(log[1].guidance), tokens(log[2].guidance))

\* The calls that returned, most recent first
returnedLog == SelectSeq(log, LAMBDA e : e.status = "returned")

\* C5: two calls with the same text on the same day report the same
\* signals, summary and suggestions and make the same first-attempt choices
\* (profile, opener, body, action, question, crisis fragment), whatever the
\* history held; the guidance of a call is its first attempt or its
\* regenerated text.
C5_SameTextSameDaySameChoices ==
  /\ \A i, j \in 1..Len(returnedLog) :
       (i < j /\ returnedLog[i].text = returnedLog[j].text
              /\ returnedLog[i].day = returnedLog[j].day)
         => /\ returnedLog[i].signals = returnedLog[j].signals
            /\ returnedLog[i].summary = returnedLog[j].summary
            /\ returnedLog[i].suggestions = returnedLog[j].suggestions
            /\ returnedLog[i].plan.profile = returnedLog[j].plan.profile
            /\ returnedLog[i].plan.parts = returnedLog[j].plan.parts
            /\ returnedLog[i].plan.first = returnedLog[j].plan.first
  /\ Returned => last.guidance \in {last.plan.first, regenerate(last.plan).val}

\* The same text answered by its first attempt and, after calls with another
\* text, by its regenerated guidance
C5_Witness ==
  \E i, j, k \in 1..Len(returnedLog) :
    /\ i < k /\ k < j
    /\ returnedLog[i].text = returnedLog[j].text
    /\ returnedLog[k].text # returnedLog[i].text
    /\ returnedLog[i].regenerated
    /\ ~returnedLog[j].regenerated

\* C6: after n calls the history holds the guidance of the last min(n, 10)
\* calls, most recent first, and nothing else.
C6_HistoryIsLastTen ==
  /\ Len(LAST_OUTPUTS) = Min(Len(returnedLog), 10)
  /\ \A i \in 1..Len(LAST_OUTPUTS) : LAST_OUTPUTS[i] = returnedLog[i].guidance

\* Eleven calls: the first guidance is evicted, and the history holds
\* different strings
C6_Witness ==
  /\ Len(returnedLog) = 11
  /\ Len(LAST_OUTPUTS) = 10
  /\ LAST_OUTPUTS[1] # LAST_OUTPUTS[2]
  /\ returnedLog[11].guidance # LAST_OUTPUTS[10]

\* Every outcome of the picks for one set of stressors: the indexes read
\* the seed modulo 2 and 8 and the seed shifted by 3 modulo 8, with its sign.
SeedSamples == {[hi |-> h, lo |-> l] : h \in {0, 32768}, l \in 0..63}

oneToThreeDistinct(sg) ==
  /\ Len(sg) >= 1
  /\ Len(sg) <= 3
  /\ \A i, j \in 1..Len(sg) : i < j => sg[i] # sg[j]

RawWithCanonical ==
  {"exam", "test", "tests", "deadline", "assignment", "project", "group", "bug",
   "debug", "grade", "gpa"}

ExamFamily == {"exam", "exams", "test", "tests"}

noDuplicateNoRaw(st) ==
  /\ \A i, j \in 1..Len(st) : i < j => st[i] # st[j]
  /\ \A i \in 1..Len(st) : st[i] \notin RawWithCanonical

exactlyExams(st) ==
  /\ Cardinality({i \in 1..Len(st) : st[i] \in ExamFamily}) = 1
  /\ \E i \in 1..Len(st) : st[i] = "exams"

C9_LongInputCompressed ==
  Returned =>
    LET p == last.plan
    IN  /\ Len(p.raw0) <= 500 => p.raw = p.raw0
        /\ Len(p.raw0) > 500 => (p.raw = compressLongInput(p.raw0) /\ Len(p.raw) <= 250 + 1)
        /\ last.summary = buildSummary(p.raw, last.signals.stressors, last.signals.mood)
        /\ p.minLen = lengthTargetsFor(p.raw)[1]

\* A text over 500 characters whose two sentences were cut to the excerpt
C9_Witness ==
  /\ Returned
  /\ Len(last.plan.raw0) > 500
  /\ Len(last.plan.raw) > 240
  /\ Ch(last.plan.raw, Len(last.plan.raw)) = Ellipsis

\* C10: no call throws; every call returns a guidance that is not empty,
\* the call with the empty text (hashed as "empty") included.
C10_Total ==
  /\ last.status \in {"none", "returned"}
  /\ Returned => Len(last.guidance) > 0
  /\ (Returned /\ last.plan.raw = "") => last.plan.seed = hash32(chars("empty"))

\* The empty text, answered a second time from a history that is not empty
C10_Witness ==
  /\ Returned
  /\ last.text = ""
  /\ last.regenerated
  /\ LAST_OUTPUTS # <<>>
  /\ Len(last.guidance) > 0

\* The latest call of the provider switch took the HUGGINGFACE case
viaHuggingFace ==
  /\ sw.status \in {"resolved", "rejected"}
  /\ toUpperCase(IF sw.env.LLM_PROVIDER.def THEN sw.env.LLM_PROVIDER.val ELSE "RULES") = "HUGGINGFACE"

\* The reply is no JSON object: not a string, or a text whose part from the
\* first { to the last } is not JSON, or JSON for something else than an
\* object
malformed(v) ==
  \/ v.t # "string"
  \/ ~JSONparse(extractJson(v.s)).ok
  \/ JSONparse(extractJson(v.s)).v.t # "object"

providerFailed ==
  noToken(sw.env) \/ sw.chat.kind = "throws" \/ malformed(sw.chat.content)

\* C11: with LLM_PROVIDER = HUGGINGFACE, a call whose provider path fails
\* (no token, chatCompletionJSON throws, or the reply is malformed) resolves
\* with the result of unpackRules(text), and never rejects.
C11_ProviderFailureFallsBack ==
  (viaHuggingFace /\ providerFailed)
    => (sw.status = "resolved" /\ sw.result = unpackRules(sw.text))

\* The events of the call of callWithRetry that are errors of the
\* authentication or the not-found class, as the claim words them
configErrorAt(i) ==
  LET e == cw.events[i].e
  IN  /\ cw.events[i].ev = "error"
      /\ \/ e.status \in {401, 403, 404}
         \/ testI("invalid credentials", e.message)
         \/ testI("not found", e.message)

ConfigErrors ==
  {"HF auth failed (check HF_TOKEN or accept model license).",
   "HF model not found/unavailable: \"Qwen/Qwen2.5-7B-Instruct\"."}

\* C12: an error of the authentication or the not-found class is the last
\* thing that happens in the call, at whatever attempt: the call has thrown
\* a configuration error, and no sleep and no POST follow the error.
C12_ConfigErrorEndsCall ==
  \A i \in 1..Len(cw.events) :
    configErrorAt(i) => (i = Len(cw.events) /\ cw.pc = "threw" /\ cw.out \in ConfigErrors)

\* A call that ended so on a later attempt, with an error that the rate-limit,
\* server or network tests match as well
C12_Witness ==
  /\ cw.pc = "threw"
  /\ cw.attempt >= 1
  /\ cw.attempt < cw.MAX_RETRIES
  /\ configErrorAt(Len(cw.events))
  /\ shouldRetry(cw.events[Len(cw.events)].e)

\* The POST requests that the call of callWithRetry has issued
posts == Cardinality({i \in 1..Len(cw.events) : cw.events[i].ev = "post"})

\* Errors of the network and of TLS, by their messages: a connection that
\* is reset, closed, or refused, a name that does not resolve, a
\* certificate that does not verify
NetworkMessages ==
  { "read ECONNRESET", "socket hang up", "unable to verify the first certificate",
    "connect ECONNREFUSED 127.0.0.1:443",
    "getaddrinfo ENOTFOUND api-inference.huggingface.co" }

\* The event i is a transient failure: HTTP 429, HTTP 5xx, or an error of
\* the network or of TLS (and none of the authentication or not-found class)
transientAt(i) ==
  LET e == cw.events[i].e
  IN  /\ cw.events[i].ev = "error"
      /\ ~configErrorAt(i)
      /\ \/ e.status = 429
         \/ (e.status >= 500 /\ e.status <= 599)
         \/ (e.status = 0 /\ e.message \in NetworkMessages)

\* C13: the call issues at most MAX_RETRIES + 1 POST requests; a transient
\* failure on an attempt before MAX_RETRIES is followed by one sleep and
\* then by the POST of the next attempt, and a transient failure on the
\* attempt MAX_RETRIES is thrown.
C13_BoundedRetries ==
  /\ posts <= cw.MAX_RETRIES + 1
  /\ \A i \in 1..Len(cw.events) :
       transientAt(i) =>
         IF cw.events[i].attempt < cw.MAX_RETRIES
         THEN /\ i < Len(cw.events)
              /\ cw.events[i + 1].ev = "sleep"
              /\ (i + 2 <= Len(cw.events) =>
                    (cw.events[i + 2].ev = "post"
                       /\ cw.events[i + 2].attempt = cw.events[i].attempt + 1))
         ELSE i = Len(cw.events) /\ cw.pc = "threw"

\* The body fails the schema, as the claim words it: text missing, not a
\* string, empty or longer than 4000 characters, or a context.mode other
\* than "journal" and "prompt"
failsSchema(body) ==
  LET text == getProp(body, "text")
      mode == getProp(getProp(body, "context"), "mode")
  IN  \/ text.t # "string"
      \/ Len(text.s) = 0
      \/ Len(text.s) > 4000
      \/ (mode.t # "undefined" /\ ~(mode.t = "string" /\ mode.s \in {"journal", "prompt"}))

\* The history holds what the calls of the log returned, and nothing else
historyOfLog ==
  /\ Len(LAST_OUTPUTS) = Len(log)
  /\ \A k \in 1..Len(log) : LAST_OUTPUTS[k] = log[k].guidance

\* C14: a request whose body fails the schema is answered with status 400,
\* a message and issues; the composer is not called for it, so the history
\* holds only the outputs of the calls made for the other requests.
C14_BadBodyRejected ==
  \A i \in DOMAIN reqs :
    (reqs[i].pc # "waiting" /\ failsSchema(reqs[i].body))
      => /\ reqs[i].pc = "answered"
         /\ reqs[i].res.status = 400
         /\ reqs[i].res.message = "Invalid body"
         /\ reqs[i].res.issues # <<>>
         /\ \A k \in 1..Len(log) : log[k].req # i
         /\ historyOfLog

\* A text of 4001 characters was refused after another request had put its
\* output in the history
C14_Witness ==
  /\ DOMAIN reqs = Requests
  /\ \E i, j \in Requests :
       /\ reqs[i].pc = "answered"
       /\ reqs[i].res.status = 400
       /\ reqs[i].body = Body(JStr(Text4001))
       /\ reqs[j].pc = "answered"
       /\ reqs[j].res.status = 200
       /\ reqs[j].body = Body(JStr(Text4000))
       /\ Len(LAST_OUTPUTS) = 1

\* The history as the latest call found it: the outputs of the ten calls
\* before it, most recent first
historyBefore ==
  LET h == [k \in 1..(Len(returnedLog) - 1) |-> returnedLog[k + 1].guidance]
  IN  SubSeq(h, 1, Min(Len(h), 10))

\* C15: a call regenerates at most once.  When it regenerates, the guidance
\* that it returns and puts at the head of the history is the guidance
\* regenerated from its first attempt, whether or not this guidance is
\* itself too similar to an entry of the history; otherwise it is the first
\* attempt.
C15_RegeneratedOnceUnchecked ==
  Returned =>
    /\ last.guidance = IF last.regenerated THEN regenerate(last.plan).val ELSE last.plan.first
    /\ LAST_OUTPUTS # <<>>
    /\ LAST_OUTPUTS[1] = last.guidance

\* A regenerated guidance that was returned although an entry of the
\* history is that similar to it
C15_Witness ==
  /\ Returned
  /\ last.regenerated
  /\ last.guidance # last.plan.first
  /\ isTooSimilarToRecent(last.guidance, historyBefore)

\* The Jaccard similarity of two sets of tokens is 0.85 or more
jaccardAtLeast85(a, b) ==
  Cardinality(a \cup b) # 0 /\ 100 * Cardinality(a \cap b) >= 85 * Cardinality(a \cup b)

\* C16: a call regenerates exactly when the token set of its length-enforced
\* first attempt has a Jaccard similarity of 0.85 or more with that of some
\* entry of the history; never with an empty history, and always when the
\* most recent entry is that first attempt itself.
C16_RegeneratesIffSimilar ==
  Returned =>
    /\ last.regenerated <=>
         LET first == tokens(last.plan.first)
         IN  \E prev \in {historyBefore[k] : k \in 1..Len(historyBefore)} :
               jaccardAtLeast85(first, tokens(prev))
    /\ historyBefore = <<>> => ~last.regenerated
    /\ (historyBefore # <<>> /\ historyBefore[1] = last.plan.first) => last.regenerated

\* A call that regenerated because of an older entry of the history, while
\* its most recent entry is not similar to the first attempt
C16_Witness ==
  /\ Returned
  /\ last.regenerated
  /\ Len(historyBefore) >= 2
  /\ ~jaccardAtLeast85(tokens(last.plan.first), tokens(historyBefore[1]))

\* The calls of a log (the latest first) run one after another, each to
\* its end before the next begins: the history they leave, and what each of
\* them returns
afterCall(before, result) ==
  [history |-> IF result.status # "returned" THEN before.history
               ELSE IF Len(before.history) >= LRU_SIZE
                    THEN <<result.guidance>> \o SubSeq(before.history, 1, LRU_SIZE - 1)
                    ELSE <<result.guidance>> \o before.history,
   results |-> <<result>> \o before.results]

callAfter(before, call) ==
  afterCall(before, compose(pool[call.text], call.day, before.history))

RECURSIVE sequentially(_)
sequentially(calls) ==
  IF calls = <<>> THEN [history |-> <<>>, results |-> <<>>]
  ELSE callAfter(sequentially(Tail(calls)), calls[1])

outcome(call) ==
  IF call.status = "returned" THEN <<call.status, call.guidance>> ELSE <<call.status>>

\* C17: whatever the interleaving of the requests, the history is the one
\* that the calls made so far leave when they run one after another in the
\* order of the log, each call returned what it returns in that sequential
\* run, and the text of every call that returned is in the history.
C17_HistoryIsSequential ==
  LET run == sequentially(log)
  IN  /\ LAST_OUTPUTS = run.history
      /\ [k \in 1..Len(log) |-> outcome(log[k])]
           = [k \in 1..Len(log) |-> outcome(run.results[k])]
      /\ \A k \in 1..Len(log) :
           /\ log[k].status = "returned" =>
                \E n \in 1..Len(LAST_OUTPUTS) : LAST_OUTPUTS[n] = log[k].guidance
           /\ reqs[log[k].req].pc \in {"awaiting", "answered"}
           /\ reqs[log[k].req].pc = "awaiting" => reqs[log[k].req].call = log[k]
      /\ Len(LAST_OUTPUTS) = Cardinality({k \in 1..Len(log) : log[k].status = "returned"})

\* Two requests are in flight at once: both called unpack and neither has
\* been answered; the later call regenerated because of the earlier one
C17_Witness ==
  /\ Len(log) = 2
  /\ \A i \in {1, 2} : reqs[i].pc = "awaiting"
  /\ log[1].status = "returned" /\ log[1].regenerated
  /\ log[2].status = "returned"
  /\ LAST_OUTPUTS = <<log[1].guidance, log[2].guidance>>
  /\ log[1].guidance # log[2].guidance

\* The position (from 0) of the profile of the first attempt
firstProfileIndex ==
  (CHOOSE k \in 1..4 : STYLE_PROFILES[k] = last.plan.profile) - 1

\* C18: the text of a call that regenerated is put together in the order of
\* the profile after the one of the first attempt (the first after the
\* fourth), from the opener chosen with seed + 7 in that profile's set, the
\* question at (seed + 11) mod 4, and the body, action and crisis fragments
\* of the first attempt, within the length envelope of the input; the
\* summary, the signals and the suggestions are those of the first attempt.
C18_RegenerationFrame ==
  (Returned /\ last.regenerated) =>
    LET first      == last.plan
        altProfile == STYLE_PROFILES[((firstProfileIndex + 1) % 4) + 1]
        opener2    == chooseOpener(first.signals.mood, SeedAdd(first.seed, 7),
                                   altProfile.openerSet)
        ask2       == questions[SeedMod(first.seed, 11, 4) + 1]
        parts2     == [opener |-> opener2, body |-> first.parts.body,
                       action |-> first.parts.action, ask |-> ask2,
                       crisis |-> first.parts.crisis]
        envelope   == lengthTargetsFor(first.raw)
    IN  /\ last.guidance = enforceLength(assemble(altProfile.order, parts2),
                                         envelope[1], envelope[2])
        /\ first.first = enforceLength(assemble(first.profile.order, first.parts),
                                       envelope[1], envelope[2])
        /\ last.summary = first.summary
        /\ last.signals = first.signals
        /\ last.suggestions = first.suggestions

\* A call regenerated from the fourth profile to the first, with another
\* opener and another question than its first attempt had
C18_Witness ==
  /\ Returned /\ last.regenerated
  /\ firstProfileIndex = 3
  /\ chooseOpener(last.plan.signals.mood, SeedAdd(last.plan.seed, 7), 0) # last.plan.parts.opener
  /\ questions[SeedMod(last.plan.seed, 11, 4) + 1] # last.plan.parts.ask
  /\ last.plan.parts.crisis # ""
  /\ last.guidance # last.plan.first

\* C19: the body fragment of a call is one of the candidate sentences of
\* its stressors: the read at (seed >> 2) % bits.length finds an element.
C19_BodyIsCandidate ==
  last.status \in {"returned", "threw"} =>
    LET a == pool[last.text]
    IN  /\ a.bodyPick.def
        /\ \E k \in 1..Len(bodyBits(a.signals.stressors)) :
             bodyBits(a.signals.stressors)[k] = a.bodyPick.val

\* 32-bit FNV-1a on four bytes, the lowest first: the offset basis
\* 2166136261 is 81 1C 9D C5 in hexadecimal, the prime 16777619 is
\* 01 00 01 93, and the product is cut after the fourth byte.
fnvXor(b, code) == <<Xor(b[1], code % 256), Xor(b[2], code \div 256), b[3], b[4]>>

fnvTimesPrime(b) ==
  LET c0 == b[1] * 147
      c1 == b[2] * 147 + b[1] + (c0 \div 256)
      c2 == b[3] * 147 + b[2] + (c1 \div 256)
      c3 == b[4] * 147 + b[3] + b[1] + (c2 \div 256)
  IN  <<c0 % 256, c1 % 256, c2 % 256, c3 % 256>>

\* The characters from..to of s, from the bytes b (b[1] < 0 never holds:
\* the test has b computed before the later characters are read)
RECURSIVE fnv1aOver(_, _, _, _)
fnv1aOver(s, from, to, b) ==
  IF from > to \/ b[1] < 0 THEN b
  ELSE IF from = to THEN fnvTimesPrime(fnvXor(b, charCodeAt(s[from])))
  ELSE LET mid == (from + to) \div 2
       IN  fnv1aOver(s, mid + 1, to, fnv1aOver(s, from, mid, b))

fnv1a(s, n) == fnv1aOver(s, 1, n, <<197, 157, 28, 129>>)

\* (value of the bytes + salt) mod n
bytesMod(b, salt, n) ==
  (b[4] * (16777216 % n) + b[3] * (65536 % n) + b[2] * 256 + b[1] + salt) % n

usedPools == <<tryNext, questions, sleepSteps, examSteps, teamSteps, baseSteps>>

\* C20: the seed of a call is the 32-bit FNV-1a value of the lower-cased
\* text (of "empty" for an empty text), it lies in 0..2^32-1, every call
\* with the same text has the same seed, and pick reads each pool at
\* (seed + salt) mod its length, an index of the pool, and so returns one of
\* its elements: the question asked and the label of the action are the
\* elements at those indexes.
C20_SeedIsFnv1a ==
  last.status \in {"returned", "threw"} =>
    LET a     == pool[last.text]
        lc    == toLowerCase(a.raw)
        s     == IF Len(lc) = 0 THEN chars("empty") ELSE lc
        bytes == fnv1a(s, Len(s))
        label == tryNext[bytesMod(bytes, 0, Len(tryNext)) + 1]
    IN  /\ a.seed.hi = bytes[4] * 256 + bytes[3]
        /\ a.seed.lo = bytes[2] * 256 + bytes[1]
        /\ a.seed.hi \in 0..65535 /\ a.seed.lo \in 0..65535
        /\ \A k \in 1..Len(log) :
             (log[k].text = last.text /\ log[k].status = "returned")
               => log[k].plan.seed = a.seed
        /\ \A p \in 1..Len(usedPools) : \A salt \in {0, 1} :
             LET index == bytesMod(bytes, salt, Len(usedPools[p]))
             IN  /\ index \in 0..(Len(usedPools[p]) - 1)
                 /\ pick(a.seed, usedPools[p], salt) = Defined(usedPools[p][index + 1])
        /\ a.ask = questions[bytesMod(bytes, 1, Len(questions)) + 1]
        /\ a.action # "" => SubSeq(a.action, 1, Len(label)) = label

\* Two calls with one text whose seed, 2548579527, is above 2^31
C20_Witness ==
  /\ Len(log) = 2
  /\ Returned
  /\ last.text = "I feel hopeless and worthless."
  /\ log[2].text = last.text
  /\ last.plan.seed = [hi |-> 38888, lo |-> 15559]
  /\ log[2].status = "returned" /\ log[2].plan.seed = last.plan.seed

\* The text that the signals of the latest call were extracted from
extracted == toLowerCase(pool[last.text].raw)

anyOf(lc, keys) == \E k \in keys : includes(lc, k)

\* C21: the mood of a call is the label of the first rule, in the order
\* overwhelmed, tired, low, frustrated, with a keyword in the lower-cased
\* text, and neutral when no rule has one.
C21_FirstMoodRuleWins ==
  last.status \in {"returned", "threw"} =>
    pool[last.text].signals.mood =
      IF anyOf(extracted, {"overwhelm", "overwhelmed", "stressed", "stress", "panic",
                           "anxious", "worry", "worried", "pressure"})
      THEN "overwhelmed"
      ELSE IF anyOf(extracted, {"tired", "exhausted", "fatigue", "drained", "sleepy",
                                "insomnia"})
      THEN "tired"
      ELSE IF anyOf(extracted, {"sad", "down", "low", "depressed", "hopeless"})
      THEN "low"
      ELSE IF anyOf(extracted, {"angry", "frustrated", "annoyed", "irritated"})
      THEN "frustrated"
      ELSE "neutral"

\* A text with keywords of the fourth and of the second rule, in that order
C21_Witness ==
  /\ Returned
  /\ last.text = "Annoyed! tired"
  /\ last.signals.mood = "tired"

\* C22: the risk flags of a call are the one flag self_harm_terms_detected
\* when the text given to the extraction holds a crisis term and empty when
\* it holds none, whatever the mood and the stressors of the text are and
\* however many terms it holds; the result returns them unchanged.
C22_OneRiskFlag ==
  last.status \in {"returned", "threw"} =>
    LET flags == pool[last.text].signals.risk_flags
    IN  /\ flags = IF anyOf(extracted, {"suicide", "kill myself", "end my life", "self-harm",
                                        "self harm", "cut myself", "harm myself",
                                        "want to die", "no reason to live", "hopeless",
                                        "worthless"})
                   THEN <<"self_harm_terms_detected">>
                   ELSE <<>>
        /\ Len(flags) <= 1
        /\ Returned => last.signals.risk_flags = flags

\* Two crisis terms in one text, one of them a keyword of the third mood rule
C22_Witness ==
  /\ Returned
  /\ last.text = "I want to die hopeless"
  /\ last.signals.risk_flags = <<"self_harm_terms_detected">>
  /\ last.signals.mood = "low"

distinct(list) == \A i, j \in 1..Len(list) : i < j => list[i] # list[j]

\* C23: every result of the provider-switch unpack has a mood in 1..5, one
\* to three suggestions and one to five questions, and no string twice
\* among the suggestions or among the questions.
C23_ResultWellFormed ==
  sw.status = "resolved" =>
    /\ sw.result.signals.mood \in 1..5
    /\ Len(sw.result.suggestions) \in 1..3
    /\ Len(sw.result.questions) \in 1..5
    /\ distinct(sw.result.suggestions)
    /\ distinct(sw.result.questions)

\* The event i is the error of a successful response without a text
emptyTextAt(i) ==
  cw.events[i].ev = "error" /\ cw.events[i].e.message = "Empty generated_text from HF response"

\* C24: an error that is followed by a sleep is a rate limit, a 5xx or a
\* failure of the network or of TLS; a successful response whose
\* generated_text is missing, empty or no string ends the call at once:
\* its error is the last event, and the call has thrown.
C24_EmptyTextThrownAtOnce ==
  /\ \A i \in 1..Len(cw.events) :
       (cw.events[i].ev = "sleep") => (~emptyTextAt(i - 1) /\ shouldRetry(cw.events[i - 1].e))
  /\ \A i \in 1..Len(cw.events) :
       emptyTextAt(i) => (i = Len(cw.events) /\ cw.pc = "threw" /\ posts = 1)

\* C25: a handler of the user-service reports success only when its service
\* call succeeded: POST /login answers 200 and sets the cookie only when
\* loginUserSvc returned ok, POST /register answers 200 only when the user
\* was inserted, and POST /reset-password answers 200 and clears the cookie
\* only when the password was changed.
C25_SuccessOnlyWhenServiceOk ==
  \A i \in DOMAIN reqs :
    (reqs[i].pc = "answered" /\ reqs[i].kind \in {"register", "login", "reset"}) =>
      /\ reqs[i].res.status = 200 => reqs[i].svc.ok
      /\ reqs[i].res.cookie.op # "keep" => reqs[i].svc.ok

\* C26: GET /session that carries a token which login issued and which has
\* not expired is answered 200 with the email and the role of that token;
\* GET /session without a valid token is answered 401.
C26_SessionFollowsToken ==
  \A i \in DOMAIN reqs :
    (reqs[i].pc = "answered" /\ reqs[i].kind = "session") =>
      IF reqs[i].cookie.kind = "jwt" /\ jwtVerify(reqs[i].cookie, reqs[i].at)
      THEN /\ reqs[i].res.status = 200
           /\ reqs[i].res.user = [email |-> reqs[i].cookie.email,
                                  role  |-> reqs[i].cookie.role]
      ELSE reqs[i].res.status = 401

\* The cookie of a request verifies at the time the request arrived
verified(r) == r.cookie.kind # "none" /\ jwtVerify(r.cookie, r.at)

\* What verifyToken(allowedRoles) does with the cookie of the request r
gateAsClaimed(r, allowedRoles) ==
  LET v       == verifyToken(allowedRoles, r.cookie, r.at)
      allowed == verified(r) /\ (allowedRoles = {} \/ r.cookie.role \in allowedRoles)
  IN  /\ v.next <=> allowed
      /\ ~v.next => v.status = IF r.cookie.kind = "none" THEN 401
                              ELSE IF ~verified(r) THEN 400 ELSE 403

\* A POST /reset-password whose token does not verify is answered by the
\* middleware, and resetPassword does not run
stoppedAtGate(r) ==
  (ResetPasswordSchema(r.body) /\ ~verified(r)) =>
    /\ r.pc = "answered"
    /\ r.res.status = (IF r.cookie.kind = "none" THEN 401 ELSE 400)
    /\ ~r.svc.returned
    /\ r.res.cookie.op = "keep"

\* A step changes a row of users only as the update of a POST
\* /reset-password whose token verified, the row is the one of the email
\* in that token, and only its password_hash changes
onlyTokenOwner ==
  \A e \in DOMAIN users :
    (e \in DOMAIN users' /\ users'[e] # users[e]) =>
      \E i \in DOMAIN reqs :
        /\ reqs[i].pc = "updating"
        /\ verified(reqs[i])
        /\ reqs[i].cookie.email = e
        /\ users'[e] = [users[e] EXCEPT !.password_hash = users'[e].password_hash]
        /\ \A o \in DOMAIN users \ {e} : users'[o] = users[o]

\* C27: verifyToken(allowedRoles) calls next() exactly when the token is
\* present, verifies, and allowedRoles is empty or holds the role of the
\* token; otherwise it sends one response (401 without a token, 400 for an
\* invalid token, 403 for a role that is not allowed) and the protected
\* handler does not run.  So POST /reset-password changes only the
\* password of the email in a verified token.
C27_TokenGuardsReset ==
  /\ [](\A i \in DOMAIN reqs :
          (reqs[i].pc # "waiting" /\ reqs[i].kind = "reset") =>
            /\ \A allowedRoles \in SUBSET {ROLES[k] : k \in 1..Len(ROLES)} :
                 gateAsClaimed(reqs[i], allowedRoles)
            /\ stoppedAtGate(reqs[i]))
  /\ [][onlyTokenOwner]_vars

\* A reset with the token of a@x.io has changed the password of a@x.io,
\* and the row of b@x.io is as it was registered
C27_Witness ==
  /\ DOMAIN users = {"a@x.io", "b@x.io"}
  /\ reqs[1].pc = "answered" /\ reqs[1].kind = "reset"
  /\ verified(reqs[1]) /\ reqs[1].cookie.email = "a@x.io"
  /\ reqs[1].svc.ok
  /\ users["a@x.io"].password_hash.plain = "password2"
  /\ users["b@x.io"].password_hash.plain = "password1"

\* The table holds one row for each normalized email, under that email
oneRowPerEmail ==
  \A e1 \in DOMAIN users :
    /\ normalizeEmail(e1) = e1 /\ users[e1].email = e1
    /\ \A e2 \in DOMAIN users : normalizeEmail(e1) = normalizeEmail(e2) => e1 = e2

\* Every registration that the service accepted has the row of its
\* normalized email
acceptedAreStored ==
  \A i \in DOMAIN reqs :
    (reqs[i].pc = "answered" /\ reqs[i].svc.ok) =>
      normalizeEmail(reqs[i].body.email) \in DOMAIN users

\* A step leaves every row that is stored as it is
rowsStay == \A e \in DOMAIN users : e \in DOMAIN users' /\ users'[e] = users[e]

\* C28: after any interleaving of registrations, two of which may both
\* have passed findUserByEmail before either inserted, the table users
\* holds at most one row for a normalized email, and a later registration
\* for an email that is stored never replaces the stored hash, name or
\* role.
C28_OneRowPerEmail ==
  /\ [](oneRowPerEmail /\ acceptedAreStored)
  /\ [][rowsStay]_vars

\* Two registrations of one address, written in two ways, both passed
\* findUserByEmail; the first was inserted, the insert of the second was
\* rejected and the row is the one of the first
C28_Witness ==
  /\ reqs[1].pc = "answered" /\ reqs[1].svc.ok
  /\ reqs[2].pc = "answered" /\ reqs[2].res.status = 500
  /\ reqs[1].body.email # reqs[2].body.email
  /\ reqs[1].email = reqs[2].email
  /\ users[reqs[1].email].name = reqs[1].body.name
  /\ users[reqs[1].email].name # reqs[2].body.name

====
